---------------------------- MODULE Spec2Model ----------------------------
(***************************************************************************)
(* State-machine model of the orchestration core of poke-tools:            *)
(*   - BitwardenCli.serialize / exec     (the serialized CLI queue)        *)
(*   - SubprocessManager                 (supervised child process)        *)
(*   - MoltbookPollingHandler            (ID-set dedup of polled posts)    *)
(*   - TelegramPollingModule             (cursor dedup per dialog)         *)
(*   - BitwardenSessionManager           (session state machine)           *)
(*   - PollingManager                    (registry and timers of pollers)  *)
(* Each component has its own specification (SpecCli, SpecSub, SpecPoll,   *)
(* SpecTg, SpecSess, SpecMgr); the variables of the other components keep  *)
(* their initial value.  SpecSess runs the session manager on the CLI      *)
(* queue.  SpecLap runs two overlapping invocations of the Moltbook poll   *)
(* handler, SpecCycle one whole Telegram poll cycle over several dialogs,  *)
(* SpecTgLap two overlapping processDialog calls on one dialog, and        *)
(* SpecPollFair and SpecCycleFair add the fairness of the awaits.          *)
(***************************************************************************)
EXTENDS Integers, Sequences, FiniteSets, TLC

VARIABLES
    \* ---- BitwardenCli (modules/bitwarden/mcp-proxy/cli.ts)
    calls,          \* the exec calls made so far, in submission order
    queue,          \* this.queue: 0 = the initial Promise.resolve(), k = the
                    \* promise result_k.catch(() => {}) left by call k
    started,        \* the calls whose execFile invocation began, in that order
    \* ---- SubprocessManager (servers/mcp-proxy/subprocess.ts)
    process,        \* this.process: 0 = null, c = the c-th child spawned
    restartAttempts,\* this.restartAttempts
    shuttingDown,   \* this.shuttingDown
    lastError,      \* this.lastError: "none" or the message of an 'error' event
    children,       \* every child spawned so far: its state and signals sent
    restartTimers,  \* number of pending setTimeout restart callbacks
    stops,          \* the stop() calls made so far and their promises
    subLog,         \* history: delays scheduled, events emitted, owner calls
    \* ---- MoltbookPollingHandler (modules/moltbook/polling/handler.ts)
    seenPostIds,    \* this.seenPostIds: the ids in insertion order (a JS Set)
    isFirstPoll,    \* this.isFirstPoll
    inv,            \* the invocation of poll() in flight, if any
    pollLog,        \* history: the last completed poll, forwards so far
    \* ---- TelegramPollingModule / TelegramMessageState (modules/telegram)
    messageState,   \* messageState.state: dialog id -> cursor (id, textHash)
    tgInv,          \* the invocation of processDialog in flight, if any
    tgLog,          \* history: the last processDialog call and its forwards
    \* ---- BitwardenSessionManager (modules/bitwarden/mcp-proxy/session.ts)
    sessionState,   \* this.sessionState
    session,        \* this.session: 0 = null, k = the token unlock call k gave
    syncTimer,      \* this.syncTimer: 0 = null, h = the h-th setInterval handle
    intervals,      \* the setInterval handles that were not cleared
    inits,          \* the initialize() calls made so far and where each stands
    shuts,          \* the shutdown() calls made so far and where each stands
    sessLog,        \* history: ticks fired, tool calls made, shutdown completed
    \* ---- PollingManager (the poller registry and scheduler)
    pollers,        \* this.pollers: a Map from name to PollerState
    timers,         \* name -> number of live setInterval timers running it
    handlerCalls,   \* name -> number of runPoller calls awaiting the handler
    clock,          \* the time new Date() gives
    mgrLog,         \* history: whether the last step threw or called onError
    \* ---- MoltbookPollingHandler.poll, invocations that overlap
    lapInv,         \* slot -> the invocation of poll() in flight there, if any
    lapLog,         \* history: the posts each invocation sent successfully
    \* ---- TelegramPollingModule.processDialog, invocations that overlap
    tgLap,          \* slot -> the invocation of processDialog in flight there
    \* ---- TelegramPollingModule.pollForMessages
    tgCycle,        \* the invocation of pollForMessages in flight, if any
    cycleLog        \* history: the dialogs of the cycle and how it ended

cliVars == <<calls, queue, started>>

subVars == <<process, restartAttempts, shuttingDown, lastError, children,
             restartTimers, stops, subLog>>

pollVars == <<seenPostIds, isFirstPoll, inv, pollLog>>

tgVars == <<messageState, tgInv, tgLog>>

sessVars == <<sessionState, session, syncTimer, intervals, inits, shuts, sessLog>>

mgrVars == <<pollers, timers, handlerCalls, clock, mgrLog>>

lapVars == <<lapInv, lapLog, tgLap>>

cycleVars == <<tgCycle, cycleLog>>

hostVars == <<mgrVars, lapVars, cycleVars>>

vars == <<cliVars, subVars, pollVars, tgVars, sessVars, hostVars>>

-----------------------------------------------------------------------------
(* Bounds of the model *)

\* number of exec calls issued on the one BitwardenCli instance
MaxCalls == 4

\* number of start() calls the owner of a SubprocessManager makes
MaxStarts == 2

\* number of stop() calls the owner of a SubprocessManager makes
MaxStops == 2

\* number of distinct post ids the feed can return
NumIds == 4

\* The feed is fetched with limit 25 and the seen set is cut to TRIM_TO_IDS
\* (500) ids when it holds more than MAX_SEEN_IDS (1000).  The model keeps
\* the relation  limit <= TRIM_TO_IDS < MAX_SEEN_IDS  at a size that can be
\* enumerated: posts per fetch, ids kept by a trim, and the cap.
MaxBatch == 2

SeenKeep == 2

SeenCap == 3

-----------------------------------------------------------------------------
(***************************************************************************)
(* BitwardenCli: serialize and exec                                        *)
(***************************************************************************)

\* How an execFile invocation can end: exit code 0 with nothing on stderr,
\* exit code 0 with content on stderr, a non-zero exit, the 30 s timeout (the
\* child is killed), or more output than maxBuffer.
Outcomes == {"exit0", "exit0stderr", "nonzero", "timeout", "maxBuffer"}

\* args[0] of the exec calls: the subcommand names
Commands == {"login", "sync"}

\* execFileAsync resolves exactly when the program exits with code 0; stderr
\* content is then only logged at debug level and stdout is returned.
ExecFileResolves(o) == o \in {"exit0", "exit0stderr"}

\* nothing was thrown
NoThrow == [type |-> "none", command |-> "none"]

\* the catch of exec: whatever execFileAsync rejected with is replaced by a
\* BitwardenCliError carrying { command: args[0] }
ExecError(cmd, o) == [type |-> "BitwardenCliError", command |-> cmd]

\* State of the promise exec returned to the caller of call k
\* (result = this.queue.then(fn, fn) adopts the promise fn returns).
ResultState(k) ==
    IF calls[k].st # "settled" THEN "pending"
    ELSE IF ExecFileResolves(calls[k].outcome) THEN "fulfilled" ELSE "rejected"

\* What exec threw to the caller of call k (NoThrow while pending or when
\* stdout was returned).
Thrown(k) ==
    IF ResultState(k) = "rejected"
    THEN ExecError(calls[k].cmd, calls[k].outcome)
    ELSE NoThrow

\* State of the promise this.queue held after q calls were serialized:
\* Promise.resolve() for q = 0, otherwise result_q.catch(() => {}), which is
\* fulfilled as soon as result_q is settled, whichever way.
QueueState(q) ==
    IF q = 0 THEN "fulfilled"
    ELSE IF ResultState(q) = "pending" THEN "pending" ELSE "fulfilled"

\* Mutant: serialize as  this.queue = this.queue.then(fn)  -- the next fn is
\* reached only through fulfilled results.
FnMayRunChainOnly(k) ==
    IF calls[k].pred = 0 THEN TRUE ELSE ResultState(calls[k].pred) = "fulfilled"

\* Mutant: serialize calls fn() at once instead of chaining it on this.queue.
FnMayRunNoWait(k) == TRUE

\* this.queue.then(fn, fn): fn of call k is invoked once the promise that
\* this.queue held when k was submitted is settled, fulfilled or rejected.
FnMayRun(k) == QueueState(calls[k].pred) \in {"fulfilled", "rejected"}

\* Mutant: serialize forgets to store the new tail in this.queue.
NewQueueStale(k) == queue

\* this.queue = result.catch(() => {}) : the tail is now call k's promise.
NewQueue(k) == k

\* exec(args, options): the call is appended to the chain (serialize).
Exec ==
    /\ Len(calls) < MaxCalls
    /\ \E cmd \in Commands :
        LET k == Len(calls) + 1 IN
        /\ calls' = Append(calls, [pred |-> queue, st |-> "queued",
                                   outcome |-> "none", cmd |-> cmd])
        /\ queue' = NewQueue(k)
    /\ UNCHANGED <<started, subVars, pollVars, tgVars, sessVars, hostVars>>

\* The reaction of this.queue.then(fn, fn): fn runs and calls execFileAsync.
FnStart(k) ==
    /\ k \in 1..Len(calls)
    /\ calls[k].st = "queued"
    /\ FnMayRun(k)
    /\ calls' = [calls EXCEPT ![k].st = "running"]
    /\ started' = Append(started, k)
    /\ UNCHANGED <<queue, subVars, pollVars, tgVars, sessVars, hostVars>>

\* execFileAsync settles: stdout is returned, or the error is wrapped in a
\* BitwardenCliError and thrown to the caller of this call only.
ExecFileSettle(k, o) ==
    /\ k \in 1..Len(calls)
    /\ calls[k].st = "running"
    /\ calls' = [calls EXCEPT ![k].st = "settled", ![k].outcome = o]
    /\ UNCHANGED <<queue, started, subVars, pollVars, tgVars, sessVars, hostVars>>

\* new BitwardenCli(...): an empty chain.
CliConstructed ==
    /\ calls = <<>>
    /\ queue = 0
    /\ started = <<>>

\* new SubprocessManager(config, logger): the field initialisers.
SubConstructed ==
    /\ process = 0
    /\ restartAttempts = 0
    /\ shuttingDown = FALSE
    /\ lastError = "none"
    /\ children = <<>>
    /\ restartTimers = 0
    /\ stops = <<>>
    /\ subLog = [delays |-> <<>>, maxReached |-> 0, ownerStarts |-> 0,
                 autoSpawns |-> 0, stopped |-> FALSE, spawnErrors |-> 0]

\* no invocation of poll() is running
IdleSlot == [pc |-> "idle", posts |-> <<>>, newPosts |-> <<>>, i |-> 0,
             newIds |-> {}, attempts |-> <<>>, replay |-> FALSE, afterTrim |-> FALSE]

NoPoll == [kind |-> "none", posts |-> <<>>, newIds |-> {}, attempts |-> <<>>,
           replay |-> FALSE, trimmed |-> FALSE]

\* new MoltbookPollingHandler(...): an empty seen set, isFirstPoll = true.
PollConstructed ==
    /\ seenPostIds = <<>>
    /\ isFirstPoll = TRUE
    /\ inv = IdleSlot
    /\ pollLog = [last |-> NoPoll, forwarded |-> FALSE]

\* the cursor of a dialog that was never marked seen (Map.get gives undefined)
NoCursor == [id |-> 0, textHash |-> <<>>]

\* the dialogs groupsList can return (those of an allowed type)
Dialogs == {1, 2}

\* no invocation of processDialog is running
TgIdle == [pc |-> "idle", dialog |-> 0, sorted |-> <<>>, i |-> 0, lastSeenId |-> 0]

\* processDialog ran to its end; its promise is about to resolve
TgDone == [pc |-> "done", dialog |-> 0, sorted |-> <<>>, i |-> 0, lastSeenId |-> 0]

NoDialogRun == [dialog |-> 0, start |-> NoCursor, fetched |-> <<>>,
                forwarded |-> <<>>, done |-> FALSE, failed |-> FALSE]

\* new TelegramPollingModule(...): a TelegramMessageState with an empty map.
TgConstructed ==
    /\ messageState = [d \in Dialogs |-> NoCursor]
    /\ tgInv = TgIdle
    /\ tgLog = NoDialogRun

\* new BitwardenSessionManager(...): the field initialisers.
SessConstructed ==
    /\ sessionState = "logged_out"
    /\ session = 0
    /\ syncTimer = 0
    /\ intervals = {}
    /\ inits = <<>>
    /\ shuts = <<>>
    /\ sessLog = [ticks |-> 0, tools |-> 0, timerSyncs |-> 0,
                  initDone |-> FALSE, shutdownDone |-> FALSE,
                  overlap |-> FALSE]

\* the names pollers are registered under
Names == {"a", "b"}

\* lastRun and lastError of a poller that never ran (undefined)
NoDate == 0

NoError == "undefined"

\* the last step neither threw to its caller nor called an onError callback
NoCall == [threw |-> FALSE, onError |-> FALSE]

\* new PollingManager(logger): an empty Map; no timer, no handler running.
MgrConstructed ==
    /\ pollers = << >>
    /\ timers = [n \in Names |-> 0]
    /\ handlerCalls = [n \in Names |-> 0]
    /\ clock = 1
    /\ mgrLog = NoCall

\* no invocation of poll() is running in the slot
LapIdle == [pc |-> "idle", newPosts |-> <<>>, i |-> 0]

\* no poll() was called in either slot
LapConstructed ==
    /\ lapInv = [k \in {1, 2} |-> LapIdle]
    /\ lapLog = [sent |-> [k \in {1, 2} |-> {}], overlap |-> FALSE]
    /\ tgLap = [k \in {1, 2} |-> TgIdle]

\* no invocation of pollForMessages is running
CycleIdle == [pc |-> "idle", dialogs |-> <<>>, k |-> 0]

NoCycle == [result |-> "none", listFailed |-> FALSE, dialogs |-> <<>>,
            called |-> <<>>, failed |-> {}, forwarded |-> {}]

\* pollForMessages was not called yet
CycleConstructed ==
    /\ tgCycle = CycleIdle
    /\ cycleLog = NoCycle

Init ==
    /\ CliConstructed /\ SubConstructed /\ PollConstructed
    /\ TgConstructed /\ SessConstructed /\ MgrConstructed
    /\ LapConstructed /\ CycleConstructed

InitCli == Init

FnStartAny == \E k \in 1..MaxCalls : FnStart(k)

ExecFileSettleAny == \E k \in 1..MaxCalls : \E o \in Outcomes : ExecFileSettle(k, o)

NextCli ==
    \/ Exec
    \/ FnStartAny
    \/ ExecFileSettleAny

SpecCli == InitCli /\ [][NextCli]_vars

\* Promise reactions are run by the event loop once their promise settled,
\* and every invocation ends by the 30 s timeout at the latest.
SpecCliFair == SpecCli /\ WF_vars(FnStartAny) /\ WF_vars(ExecFileSettleAny)

-----------------------------------------------------------------------------
(* Claims about the CLI queue *)

Running == {k \in 1..Len(calls) : calls[k].st = "running"}

\* C1: at most one CLI invocation is in flight at any time, and a call has
\* started only if every call submitted before it has settled.
C1_MutualExclusion ==
    /\ Cardinality(Running) <= 1
    /\ \A k \in 1..Len(calls) :
        calls[k].st # "queued" => \A j \in 1..(k - 1) : calls[j].st = "settled"

\* C1 witness: a failed call, the next one in flight, a third one waiting.
C1_Witness ==
    /\ Len(calls) >= 3
    /\ ResultState(1) = "rejected"
    /\ calls[2].st = "running"
    /\ calls[3].st = "queued"

\* C2: the CLI invocations begin in exactly the order of submission.
C2_FifoOrder == \A i \in 1..Len(started) : started[i] = i

\* C2 witness: three invocations have begun, after a failure and a success.
C2_Witness ==
    /\ Len(started) >= 3
    /\ ResultState(1) = "rejected"
    /\ ResultState(2) = "fulfilled"

\* C3: every submitted call is eventually executed and settles, whatever
\* the calls before it did; a call is rejected only by its own failure.
C3_NoDeadlock ==
    \A k \in 1..MaxCalls :
        [](Len(calls) >= k =>
            <>(/\ Len(calls) >= k
               /\ calls[k].st = "settled"
               /\ \E i \in 1..Len(started) : started[i] = k))

\* C3 witness: a call ran and settled behind a call that timed out.
C3_Witness ==
    /\ Len(calls) >= 3
    /\ calls[1].outcome = "timeout"
    /\ calls[2].outcome = "maxBuffer"
    /\ calls[3].st = "settled"
    /\ ResultState(3) = "fulfilled"

\* C31: when the program exits non-zero or writes to stderr, exec rejects
\* with a BitwardenCliError whose command is args[0]; nothing else than a
\* BitwardenCliError is ever thrown by exec.
C31_CliErrorsTyped ==
    \A k \in 1..Len(calls) :
        calls[k].st = "settled" =>
            /\ calls[k].outcome \in {"nonzero", "exit0stderr"} =>
                    /\ ResultState(k) = "rejected"
                    /\ Thrown(k) = [type |-> "BitwardenCliError",
                                    command |-> calls[k].cmd]
            /\ ResultState(k) = "rejected" =>
                    Thrown(k).type = "BitwardenCliError"

\* The part of C31 that holds: every failure of execFile (non-zero exit,
\* timeout, maxBuffer) is thrown as a BitwardenCliError naming args[0].
CliFailuresTyped ==
    \A k \in 1..Len(calls) :
        (calls[k].st = "settled" /\ ~ExecFileResolves(calls[k].outcome)) =>
            Thrown(k) = [type |-> "BitwardenCliError", command |-> calls[k].cmd]

-----------------------------------------------------------------------------
(***************************************************************************)
(* SubprocessManager: start, the 'error' and 'exit' handlers, stop         *)
(***************************************************************************)

\* private maxRestarts = 5
MaxRestarts == 5

\* private restartDelay = 1000 (ms)
RestartDelay == 1000

\* the grace period of stop(), in ms: setTimeout(..., 5000)
StopGrace == 5000

\* spawn(resolvedPath, args, ...): a ChildProcess object is returned in
\* every case; when the executable cannot be spawned the child never runs
\* and only its 'error' event follows.
NewChild(ok) ==
    [st |-> IF ok THEN "alive" ELSE "nospawn", sig |-> {}]

\* Mutant: the exit handler compares with <= and allows one restart more.
MayRestartOffByOne == ~shuttingDown /\ restartAttempts <= MaxRestarts

\* Exit handler: if (!this.shuttingDown && this.restartAttempts < this.maxRestarts)
MayRestart == ~shuttingDown /\ restartAttempts < MaxRestarts

\* const delay = this.restartDelay * this.restartAttempts (after the ++)
BackoffDelay(attempt) == RestartDelay * attempt

\* Mutant: stop() never arms its grace timer.
StopPendingNoTimer(proc) == [proc |-> proc, st |-> "pending", timer |-> FALSE, via |-> "none"]

\* stop() with a child held: the promise is pending, resolved by the child's
\* 'exit' (once) or by the armed 5 s timer.
StopPending(proc) == [proc |-> proc, st |-> "pending", timer |-> TRUE, via |-> "none"]

\* stop() with no child held: `if (!proc) return` -- resolved at once.
StopNoop == [proc |-> 0, st |-> "resolved", timer |-> FALSE, via |-> "noop"]

\* Mutant: start() does not look at this.process.
AlreadyRunningNever == FALSE

\* start(): if (this.process) throw new Error('Process already running')
AlreadyRunning == process # 0

\* The body of start() behind the `if (this.process) throw` guard.
SpawnChild(ok) ==
    /\ shuttingDown' = FALSE
    /\ children' = Append(children, NewChild(ok))
    /\ process' = Len(children) + 1

\* start() called by the owner of the manager.
Start ==
    /\ subLog.ownerStarts < MaxStarts
    /\ IF AlreadyRunning
       THEN \* throw new Error('Process already running')
            /\ subLog' = [subLog EXCEPT !.ownerStarts = @ + 1]
            /\ UNCHANGED <<process, shuttingDown, children>>
       ELSE /\ \E ok \in BOOLEAN : SpawnChild(ok)
            /\ subLog' = [subLog EXCEPT !.ownerStarts = @ + 1, !.stopped = FALSE]
    /\ UNCHANGED <<restartAttempts, lastError, restartTimers, stops, cliVars, pollVars, tgVars, sessVars, hostVars>>

ProcessAfterErrorKept(proc) == proc

\* the 'error' handler: this.process = null
ProcessAfterError(proc) == 0

\* process.on('error'): the child could not be spawned.
ChildError(c) ==
    /\ c \in 1..Len(children)
    /\ children[c].st = "nospawn"
    /\ lastError' = "spawn error"
    /\ process' = ProcessAfterError(process)
    /\ children' = [children EXCEPT ![c].st = "gone"]
    /\ subLog' = [subLog EXCEPT !.spawnErrors = 1]
    /\ UNCHANGED <<restartAttempts, shuttingDown, restartTimers, stops, cliVars, pollVars, tgVars, sessVars, hostVars>>

\* Child c exits: process.on('exit') runs, then the once('exit') listener of
\* every stop() that captured c (clearTimeout, resolve).
ChildExit(c) ==
    /\ c \in 1..Len(children)
    /\ children[c].st = "alive"
    /\ children' = [children EXCEPT ![c].st = "gone"]
    /\ process' = 0
    /\ IF MayRestart
       THEN /\ restartAttempts' = restartAttempts + 1
            /\ restartTimers' = restartTimers + 1
            /\ subLog' = [subLog EXCEPT
                   !.delays = Append(@, BackoffDelay(restartAttempts + 1))]
       ELSE /\ UNCHANGED <<restartAttempts, restartTimers>>
            /\ subLog' = [subLog EXCEPT !.maxReached =
                   IF restartAttempts >= MaxRestarts THEN 1 ELSE @]
    /\ stops' = [i \in 1..Len(stops) |->
                    IF stops[i].proc = c /\ stops[i].st = "pending"
                    THEN [stops[i] EXCEPT !.st = "resolved", !.timer = FALSE, !.via = "exit"]
                    ELSE stops[i]]
    /\ UNCHANGED <<shuttingDown, lastError, cliVars, pollVars, tgVars, sessVars, hostVars>>

\* The restart timer of the exit handler fires:
\* if (!this.shuttingDown) this.start().catch(log)
RestartFire ==
    /\ restartTimers > 0
    /\ restartTimers' = restartTimers - 1
    /\ IF ~shuttingDown /\ ~AlreadyRunning
       THEN /\ \E ok \in BOOLEAN : SpawnChild(ok)
            /\ subLog' = [subLog EXCEPT !.autoSpawns = @ + 1]
       ELSE \* shutting down, or start() rejects with 'Process already running'
            UNCHANGED <<process, shuttingDown, children, subLog>>
    /\ UNCHANGED <<restartAttempts, lastError, stops, cliVars, pollVars, tgVars, sessVars, hostVars>>

\* stop() called by the owner of the manager.
Stop ==
    /\ Len(stops) < MaxStops
    /\ IF process = 0
       THEN /\ stops' = Append(stops, StopNoop)
            /\ UNCHANGED <<shuttingDown, children>>
       ELSE /\ shuttingDown' = TRUE
            /\ stops' = Append(stops, StopPending(process))
            /\ children' = [children EXCEPT ![process].sig = @ \cup {"SIGTERM"}]
    /\ subLog' = [subLog EXCEPT !.stopped = TRUE]
    /\ UNCHANGED <<process, restartAttempts, lastError, restartTimers, cliVars, pollVars, tgVars, sessVars, hostVars>>

\* The 5 s timer of stop() call i fires: SIGKILL to whatever child is held,
\* then resolve().
GraceFire(i) ==
    /\ i \in 1..Len(stops)
    /\ stops[i].st = "pending"
    /\ stops[i].timer
    /\ stops' = [stops EXCEPT ![i].st = "resolved", ![i].timer = FALSE, ![i].via = "grace"]
    /\ children' = IF process # 0
                   THEN [children EXCEPT ![process].sig = @ \cup {"SIGKILL"}]
                   ELSE children
    /\ UNCHANGED <<process, restartAttempts, shuttingDown, lastError,
                   restartTimers, subLog, cliVars, pollVars, tgVars, sessVars, hostVars>>

\* Mutant: restartCount counts the children spawned by restart timers.
StatusCountsSpawns ==
    [running |-> process # 0, restartCount |-> subLog.autoSpawns,
     lastError |-> lastError]

\* get status(): running is !!this.process, restartCount is restartAttempts
Status ==
    [running |-> process # 0, restartCount |-> restartAttempts,
     lastError |-> lastError]

ChildErrorAny == \E c \in 1..(MaxStarts + MaxRestarts) : ChildError(c)

ChildExitAny == \E c \in 1..(MaxStarts + MaxRestarts) : ChildExit(c)

GraceFireAny == \E i \in 1..MaxStops : GraceFire(i)

InitSub == Init

NextSub ==
    \/ Start
    \/ ChildErrorAny
    \/ ChildExitAny
    \/ RestartFire
    \/ Stop
    \/ GraceFireAny

SpecSub == InitSub /\ [][NextSub]_vars

\* Timers that are armed fire, and the 'error' event of a failed spawn is
\* delivered on the next tick; a running child may run forever.
SpecSubFair ==
    SpecSub /\ WF_vars(GraceFireAny) /\ WF_vars(RestartFire) /\ WF_vars(ChildErrorAny)

-----------------------------------------------------------------------------
(* Claims about SubprocessManager *)

\* The owner started the manager once and never stopped it, every spawn
\* succeeded, and nothing is left: no child held, no restart timer pending.
CrashLoopOver ==
    /\ subLog.ownerStarts = 1
    /\ stops = <<>>
    /\ subLog.spawnErrors = 0
    /\ Len(children) >= 1
    /\ process = 0
    /\ restartTimers = 0

\* C4: the k-th automatic restart is scheduled after k * 1000 ms, at most 5
\* are ever scheduled, maxRestartsReached is emitted only once they are used
\* up, and a child that always exits is restarted exactly 5 times, after
\* which the manager holds no child and no timer.
C4_RestartBound ==
    /\ restartAttempts \in 0..MaxRestarts
    /\ Len(subLog.delays) = restartAttempts
    /\ \A k \in 1..Len(subLog.delays) : subLog.delays[k] = k * 1000
    /\ subLog.autoSpawns + restartTimers <= restartAttempts
    /\ subLog.maxReached = 1 => restartAttempts = 5
    /\ CrashLoopOver =>
        /\ subLog.autoSpawns = 5
        /\ Len(children) = 6
        /\ subLog.maxReached = 1

\* C4 witness: the crash loop of a child that always exits has ended.
C4_Witness == CrashLoopOver /\ subLog.maxReached = 1 /\ restartAttempts = 5

\* C5: once stop() has been called, no restart timer spawns a child until
\* the owner calls start() again.
C5_NoRestartAfterStop ==
    [][subLog.stopped => subLog'.autoSpawns = subLog.autoSpawns]_vars

\* C6: every stop() resolves: at once and without a signal when no child is
\* held, otherwise after SIGTERM was sent and when the child exits or the
\* grace timer fires; SIGKILL is sent only by a grace timer that fired.
C6_StopResolves ==
    /\ \A i \in 1..MaxStops :
        [](Len(stops) >= i => <>(Len(stops) >= i /\ stops[i].st = "resolved"))
    /\ [](\A i \in 1..Len(stops) :
            /\ stops[i].proc = 0 => stops[i].via = "noop"
            /\ stops[i].proc # 0 => "SIGTERM" \in children[stops[i].proc].sig
            /\ stops[i].st = "pending" => stops[i].timer)
    /\ [](\A c \in 1..Len(children) :
            "SIGKILL" \in children[c].sig =>
                \E i \in 1..Len(stops) : stops[i].via = "grace")

\* C6 witness: a stop() was resolved by its grace timer, which sent SIGKILL
\* to the child it had captured, still held.
C6_Witness ==
    \E i \in 1..Len(stops) :
        /\ stops[i].via = "grace"
        /\ stops[i].proc # 0
        /\ "SIGKILL" \in children[stops[i].proc].sig

\* C30: a child that could not be spawned stays held until its 'error'
\* event; the event leaves the manager holding no process, with lastError
\* set to the message, and schedules no restart; the start() that made the
\* spawn ran to its end (the child is held), it did not throw.
C30_SpawnFailureContained ==
    /\ [](\A c \in DOMAIN children : children[c].st = "nospawn" => process = c)
    /\ [][/\ \A c \in DOMAIN children :
               (children[c].st = "nospawn" /\ children'[c].st = "gone") =>
                   /\ process' = 0
                   /\ lastError' = "spawn error"
                   /\ restartTimers' = restartTimers
                   /\ restartAttempts' = restartAttempts
                   /\ stops' = stops
          /\ (subLog'.ownerStarts = subLog.ownerStarts + 1 /\ process = 0) =>
                   /\ Len(children') = Len(children) + 1
                   /\ process' = Len(children')
         ]_vars

\* C30 witness: the only spawn failed and its 'error' event was handled
C30_Witness ==
    /\ subLog.ownerStarts = 1
    /\ subLog.spawnErrors = 1
    /\ Len(children) = 1 /\ children[1].st = "gone"
    /\ process = 0
    /\ lastError = "spawn error"
    /\ restartTimers = 0

\* the children that were spawned and have not exited
Alive == {c \in 1..Len(children) : children[c].st = "alive"}

C32_AttemptsMonotonic ==
    /\ [](restartAttempts \in 0..5 /\ Status.restartCount = restartAttempts)
    /\ [][/\ restartAttempts' >= restartAttempts
          /\ Len(children') > Len(children) => restartAttempts' = restartAttempts
          /\ subLog'.ownerStarts > subLog.ownerStarts =>
                 restartAttempts' = restartAttempts
         ]_vars

\* C32 witness: after two crashes, a restart by timer and an explicit start()
\* that spawned, a child is held and the count is still 2.
C32_Witness ==
    /\ restartAttempts = 2
    /\ subLog.autoSpawns >= 1
    /\ subLog.ownerStarts >= 2
    /\ Len(children) >= 3
    /\ process = Len(children)
    /\ children[process].st = "alive"
    /\ Status.restartCount = 2

-----------------------------------------------------------------------------
(***************************************************************************)
(* MoltbookPollingHandler: poll and trimSeenIds                            *)
(***************************************************************************)

PostIds == 1..NumIds

Range(f) == {f[x] : x \in DOMAIN f}

\* What getFeed can return: up to MaxBatch posts with distinct ids, in feed
\* order (newest first).
Batches ==
    {b \in UNION {[1..n -> PostIds] : n \in 0..MaxBatch} :
        \A x, y \in DOMAIN b : x # y => b[x] # b[y]}

\* Array.prototype.reverse
Reverse(seq) == [x \in 1..Len(seq) |-> seq[Len(seq) + 1 - x]]

\* Set.prototype.add: a new id goes last, a known id keeps its place.
AddSeen(seen, id) == IF id \in Range(seen) THEN seen ELSE Append(seen, id)

\* for (const post of posts) this.seenPostIds.add(post.id)
RECURSIVE AddAll(_, _)
AddAll(seen, posts) ==
    IF posts = <<>> THEN seen ELSE AddAll(AddSeen(seen, Head(posts)), Tail(posts))

\* Mutant: the filter is applied but the result is not reversed.
NewPostsNotReversed(posts, seen) ==
    SelectSeq(posts, LAMBDA id : id \notin Range(seen))

\* posts.filter((post) => !this.seenPostIds.has(post.id)).reverse()
NewPosts(posts, seen) ==
    Reverse(SelectSeq(posts, LAMBDA id : id \notin Range(seen)))

\* the constants of the handler; the state machine runs on SeenCap and
\* SeenKeep in their place
MAX_SEEN_IDS == 1000

TRIM_TO_IDS == 500

TrimToOldest(seen, max, keep) ==
    IF Len(seen) > max THEN SubSeq(seen, 1, keep) ELSE seen

\* trimSeenIds with the cap `max` and the size `keep`: above the cap only
\* the last `keep` ids inserted are kept (idsArray.slice(-keep)).
TrimTo(seen, max, keep) ==
    IF Len(seen) > max
    THEN SubSeq(seen, Len(seen) - keep + 1, Len(seen))
    ELSE seen

\* trimSeenIds
TrimSeenIds(seen) == TrimTo(seen, SeenCap, SeenKeep)

\* Mutant: the id is marked seen before the outcome of the send is known.
SeenAfterSendAlways(seen, id, ok) == AddSeen(seen, id)

\* await sendInboundMessage(message); this.seenPostIds.add(post.id) -- the
\* add is skipped when the send throws (the catch block only logs).
SeenAfterSend(seen, id, ok) == IF ok THEN AddSeen(seen, id) ELSE seen

\* Mutant: the first poll flips the flag but does not record the ids.
ColdStartSeenNothing(seen, posts) == seen

\* First poll: every fetched id is added to the seen set.
ColdStartSeen(seen, posts) == AddAll(seen, posts)

\* The record of a poll that has returned or thrown.
Completed(kind, r, trimmed) ==
    [kind |-> kind, posts |-> r.posts, newIds |-> r.newIds,
     attempts |-> r.attempts, replay |-> r.replay, trimmed |-> trimmed]

\* poll() is invoked (by the poller's timer or trigger) and awaits getFeed.
\* Invocations are modelled one at a time: the next one starts when the
\* previous one has returned or thrown.
PollCall ==
    /\ inv.pc = "idle"
    /\ inv' = [IdleSlot EXCEPT !.pc = "fetching"]
    /\ UNCHANGED <<seenPostIds, isFirstPoll, pollLog, cliVars, subVars, tgVars, sessVars, hostVars>>

\* Mutant: the flag is cleared before getFeed is awaited.
FlagAfterFetchFailCleared(flag) == FALSE

\* this.isFirstPoll = false stands behind `await getFeed`, in the branch of
\* the first poll: a fetch that throws leaves the flag as it is
FlagAfterFetchFail(flag) == flag

\* getFeed rejects: the outer catch logs and rethrows, nothing else happens.
FetchFail ==
    /\ inv.pc = "fetching"
    /\ inv' = IdleSlot
    /\ pollLog' = [pollLog EXCEPT !.last = Completed("threw", inv, FALSE)]
    /\ isFirstPoll' = FlagAfterFetchFail(isFirstPoll)
    /\ UNCHANGED <<seenPostIds, cliVars, subVars, tgVars, sessVars, hostVars>>

\* Whether this fetch repeats the batch of the poll completed just before,
\* all of whose forwards had succeeded.
IsReplay(posts) ==
    /\ pollLog.last.kind \in {"cold", "normal"}
    /\ pollLog.last.posts = posts
    /\ \A x \in 1..Len(pollLog.last.attempts) : pollLog.last.attempts[x].ok

\* getFeed resolves with `posts`: the cold start, or the filter and the
\* first sendInboundMessage call, or (nothing new) the trim and the return.
FetchOk(posts) ==
    /\ inv.pc = "fetching"
    /\ LET r == [inv EXCEPT !.posts = posts,
                            !.newIds = Range(posts) \ Range(seenPostIds),
                            !.replay = IsReplay(posts),
                            !.afterTrim = pollLog.last.trimmed]
           np == NewPosts(posts, seenPostIds)
       IN
       IF isFirstPoll
       THEN /\ seenPostIds' = ColdStartSeen(seenPostIds, posts)
            /\ isFirstPoll' = FALSE
            /\ inv' = IdleSlot
            /\ pollLog' = [pollLog EXCEPT !.last = Completed("cold", r, FALSE)]
       ELSE IF np = <<>>
       THEN /\ seenPostIds' = TrimSeenIds(seenPostIds)
            /\ inv' = IdleSlot
            /\ pollLog' = [pollLog EXCEPT !.last =
                   Completed("normal", r, Len(seenPostIds) > SeenCap)]
            /\ UNCHANGED isFirstPoll
       ELSE /\ inv' = [r EXCEPT !.pc = "sending", !.newPosts = np, !.i = 1]
            /\ pollLog' = [pollLog EXCEPT !.last = NoPoll]
            /\ UNCHANGED <<seenPostIds, isFirstPoll>>
    /\ UNCHANGED <<cliVars, subVars, tgVars, sessVars, hostVars>>

\* Mutant: the try/catch is around the loop, a failed send ends it.
SendLoopEndsOnFailure(r, ok) == ~ok \/ r.i >= Len(r.newPosts)

\* for (const post of newPosts) { try { ... } catch { log } }: the catch is
\* inside the loop, which ends after the last post whatever the sends did
SendLoopEnds(r, ok) == r.i >= Len(r.newPosts)

\* sendInboundMessage for newPosts[i] settles (ok or a throw), then the loop
\* goes on to the next post or ends with trimSeenIds.
SendSettle(ok) ==
    /\ inv.pc = "sending"
    /\ LET id == inv.newPosts[inv.i]
           seen1 == SeenAfterSend(seenPostIds, id, ok)
           r == [inv EXCEPT !.attempts = Append(@, [id |-> id, ok |-> ok])]
       IN
       /\ IF ~SendLoopEnds(inv, ok)
          THEN /\ seenPostIds' = seen1
               /\ inv' = [r EXCEPT !.i = @ + 1]
               /\ pollLog' = [pollLog EXCEPT !.forwarded = TRUE]
          ELSE /\ seenPostIds' = TrimSeenIds(seen1)
               /\ inv' = IdleSlot
               /\ pollLog' = [last |-> Completed("normal", r, Len(seen1) > SeenCap),
                              forwarded |-> TRUE]
    /\ UNCHANGED <<isFirstPoll, cliVars, subVars, tgVars, sessVars, hostVars>>

FetchOkAny == \E posts \in Batches : FetchOk(posts)

SendSettleAny == \E ok \in BOOLEAN : SendSettle(ok)

InitPoll == Init

NextPoll ==
    \/ PollCall
    \/ FetchFail
    \/ FetchOkAny
    \/ SendSettleAny

SpecPoll == InitPoll /\ [][NextPoll]_vars

\* The poller's timer keeps calling poll(), and the promises of getFeed and
\* of sendInboundMessage settle (both are HTTP requests).
SpecPollFair ==
    /\ SpecPoll
    /\ WF_vars(PollCall)
    /\ WF_vars(FetchFail \/ FetchOkAny)
    /\ WF_vars(SendSettleAny)

-----------------------------------------------------------------------------
(* Claims about MoltbookPollingHandler *)

\* the forward attempts of the poll in flight or, between polls, of the
\* poll completed last
CurAttempts == IF inv.pc = "sending" THEN inv.attempts ELSE pollLog.last.attempts

AttemptIds(attempts) == [x \in 1..Len(attempts) |-> attempts[x].id]

PosIn(seq, id) == CHOOSE x \in 1..Len(seq) : seq[x] = id

\* `ids` lists exactly the members of `set`, each once
ExactlyOnce(ids, set) == Range(ids) = set /\ Len(ids) = Cardinality(set)

\* `ids` is in the reverse of the order its members have in the feed `posts`
OldestFirst(ids, posts) ==
    \A x, y \in 1..Len(ids) : x < y => PosIn(posts, ids[x]) > PosIn(posts, ids[y])

\* C7: after the cold start an id enters the seen set only in the step in
\* which the send for that very post succeeded, and a send that failed
\* leaves its id out of the seen set; every fetched id that is unseen when
\* its feed arrives (so also one whose send failed before) is attempted.
C7_CommitAfterSuccess ==
    /\ [](/\ inv.pc = "sending" => inv.newIds \subseteq Range(inv.newPosts)
          /\ pollLog.last.kind = "normal" =>
                pollLog.last.newIds \subseteq Range(AttemptIds(pollLog.last.attempts)))
    /\ [][~isFirstPoll =>
        /\ \A id \in Range(seenPostIds') \ Range(seenPostIds) :
            /\ inv.pc = "sending"
            /\ id = inv.newPosts[inv.i]
            /\ CurAttempts' = Append(inv.attempts, [id |-> id, ok |-> TRUE])
        /\ (/\ inv.pc = "sending"
            /\ CurAttempts' = Append(inv.attempts, [id |-> inv.newPosts[inv.i], ok |-> FALSE]))
           => inv.newPosts[inv.i] \notin Range(seenPostIds')
      ]_vars

\* C7 witness: a poll forwarded one new post and failed on another; the
\* first is seen, the second is not.
C7_Witness ==
    /\ pollLog.last.kind = "normal"
    /\ \E x, y \in 1..Len(pollLog.last.attempts) :
        /\ pollLog.last.attempts[x].ok
        /\ pollLog.last.attempts[x].id \in Range(seenPostIds)
        /\ ~pollLog.last.attempts[y].ok
        /\ pollLog.last.attempts[y].id \notin Range(seenPostIds)

\* C8: until a fetch has succeeded nothing is seen and nothing is forwarded;
\* the first poll whose fetch succeeds makes the seen set the fetched ids and
\* sends nothing.
C8_ColdStart ==
    /\ [](isFirstPoll =>
            /\ seenPostIds = <<>>
            /\ ~pollLog.forwarded
            /\ inv.pc # "sending")
    /\ [][(isFirstPoll /\ ~isFirstPoll') =>
            /\ pollLog'.last.kind = "cold"
            /\ seenPostIds' = pollLog'.last.posts
            /\ pollLog'.last.attempts = <<>>
            /\ ~pollLog'.forwarded
            /\ inv'.pc = "idle"
         ]_vars

\* C8 witness: the cold start absorbed a feed of two posts without a send.
C8_Witness ==
    /\ pollLog.last.kind = "cold"
    /\ Len(pollLog.last.posts) = 2
    /\ seenPostIds = pollLog.last.posts
    /\ ~pollLog.forwarded

\* C9: a poll after the cold start attempts exactly the fetched posts that
\* were not in the seen set when the feed arrived, each once, in the reverse
\* of the feed order; the cold start attempts none.
C9_ForwardSetAndOrder ==
    /\ inv.pc = "sending" =>
        /\ ExactlyOnce(inv.newPosts, inv.newIds)
        /\ OldestFirst(inv.newPosts, inv.posts)
        /\ AttemptIds(inv.attempts) = SubSeq(inv.newPosts, 1, inv.i - 1)
    /\ pollLog.last.kind = "normal" =>
        /\ ExactlyOnce(AttemptIds(pollLog.last.attempts), pollLog.last.newIds)
        /\ OldestFirst(AttemptIds(pollLog.last.attempts), pollLog.last.posts)
    /\ pollLog.last.kind = "cold" => pollLog.last.attempts = <<>>

\* C9 witness: cold start on [1], then a fetch of [1, 2] gave exactly one
\* forward, of 2.
C9_Witness ==
    /\ pollLog.last.kind = "normal"
    /\ pollLog.last.posts = <<1, 2>>
    /\ pollLog.last.newIds = {2}
    /\ pollLog.last.attempts = <<[id |-> 2, ok |-> TRUE]>>
    /\ seenPostIds = <<1, 2>>

\* C10: a poll whose fetch repeats the batch of the poll completed just
\* before it (all of whose forwards succeeded) forwards nothing.
C10_ReplayForwardsNothing ==
    /\ ~(inv.pc = "sending" /\ inv.replay)
    /\ pollLog.last.replay => pollLog.last.attempts = <<>>

\* The replay of a batch forwards nothing unless the poll before it ended
\* with a trim of the seen set.
ReplayAfterNoTrim ==
    inv.pc = "sending" /\ inv.replay => inv.afterTrim

\* the post `id` was fetched by the poll in flight, after the cold start,
\* and was not in the seen set when its feed arrived
Owed(id) == inv.pc = "sending" /\ id \in inv.newIds

\* a send of the post `id` succeeded in the poll in flight or completed last
Delivered(id) ==
    \E x \in DOMAIN CurAttempts : CurAttempts[x] = [id |-> id, ok |-> TRUE]

\* no send failed in the poll in flight or completed last
NoSendFailure == \A x \in DOMAIN CurAttempts : CurAttempts[x].ok

\* a poll whose fetch succeeded ran to its end
PollCompleted == pollLog.last.kind = "normal"

\* C26: if polls keep completing and from some time on no send fails, every
\* post fetched after the cold start while not in the seen set is, sooner
\* or later, sent successfully.
C26_AtLeastOnce ==
    ([]<>PollCompleted /\ <>[]NoSendFailure) =>
        \A id \in PostIds : [](Owed(id) => <>Delivered(id))

\* the seen set when the poll that completes in this step reached its trim
BeforeTrim ==
    IF inv.pc = "sending" /\ Len(pollLog'.last.attempts) > 0
                          /\ pollLog'.last.attempts[Len(pollLog'.last.attempts)].ok
    THEN AddSeen(seenPostIds, inv.newPosts[inv.i])
    ELSE seenPostIds

\* the last n elements of a sequence
LastOf(seq, n) == [x \in 1..n |-> seq[Len(seq) - n + x]]

\* C29: a poll after the cold start that reaches its end with more than
\* SeenCap ids in the seen set leaves exactly the SeenKeep ids inserted
\* last, in their order, and one that ends with at most SeenCap ids leaves
\* the set as it is; so between polls the seen set holds at most SeenCap
\* ids.  With the constants of the handler: 1001 ids inserted in the order
\* 1, 2, ... are cut to the 500 ids 502 .. 1001.
C29_CapTrimming ==
    /\ [](/\ inv.pc # "sending" => Len(seenPostIds) <= SeenCap
          /\ TrimTo([x \in 1..(MAX_SEEN_IDS + 1) |-> x], MAX_SEEN_IDS, TRIM_TO_IDS)
                = [x \in 1..TRIM_TO_IDS |-> x + (MAX_SEEN_IDS + 1 - TRIM_TO_IDS)])
    /\ [][(inv.pc # "idle" /\ inv'.pc = "idle" /\ pollLog'.last.kind = "normal") =>
            IF Len(BeforeTrim) > SeenCap
            THEN /\ Len(seenPostIds') = SeenKeep
                 /\ seenPostIds' = LastOf(BeforeTrim, SeenKeep)
                 /\ pollLog'.last.trimmed
            ELSE /\ seenPostIds' = BeforeTrim
                 /\ ~pollLog'.last.trimmed
         ]_vars

\* C29 witness: a poll after the cold start ended with a trim
C29_Witness ==
    /\ pollLog.last.kind = "normal"
    /\ pollLog.last.trimmed
    /\ inv.pc = "idle"
    /\ Len(seenPostIds) = SeenKeep

\* the feed of the poll in flight or completed last holds the post `id`
InFeed(id) ==
    \/ inv.pc = "sending" /\ id \in Range(inv.posts)
    \/ pollLog.last.kind = "normal" /\ id \in Range(pollLog.last.posts)

\* A post that the feed keeps returning is sent successfully once sends stop
\* failing: the retry is the next fetch that still holds the post.
AtLeastOnceWhileInFeed ==
    \A id \in PostIds :
        ([]<>InFeed(id) /\ <>[]NoSendFailure) => [](Owed(id) => <>Delivered(id))

-----------------------------------------------------------------------------
(***************************************************************************)
(* TelegramPollingModule.processDialog and TelegramMessageState            *)
(***************************************************************************)

\* messagesList is called with limit 10; the model fetches at most MaxFetch
\* messages at a time.
MaxFetch == 4

\* The message ids of a chat and the texts a message can carry ("a", "b", as
\* UTF-16 code units).  A text can change under an id: an edit in place.
MsgIds == {9, 10, 11, 12}

Texts == {<<97>>, <<98>>}

Messages == [id : MsgIds, text : Texts]

\* What messagesList can return for a chat: up to MaxFetch messages in any
\* order, each id of the chat at most once.
Fetches ==
    {f \in UNION {[1..n -> Messages] : n \in 1..MaxFetch} :
        \A i, j \in 1..Len(f) : i # j => f[i].id # f[j].id}

\* Number.prototype.toString(16) of a non-negative number: its hex digits.
RECURSIVE ToHex(_)
ToHex(n) == IF n < 16 THEN <<n>> ELSE ToHex(n \div 16) \o <<n % 16>>

\* The loop of hashText: hash = (hash << 5) - hash + char; hash = hash & hash.
\* For the texts of the model the value stays far below 2^31, where << 5 is
\* a multiplication by 32 and hash & hash leaves the value as it is.
RECURSIVE HashLoop(_, _, _)
HashLoop(text, i, hash) ==
    IF i > Len(text) THEN hash
    ELSE HashLoop(text, i + 1, (hash * 32) - hash + text[i])

\* hashText(text): the hash written in base 16.
HashText(text) == ToHex(HashLoop(text, 1, 0))

\* getLastSeenId(dialogId): this.state.get(dialogId)?.id  (0 = undefined)
GetLastSeenId(d) == messageState[d].id

\* Mutant: a dialog without a stored entry has its messages taken as seen.
IsNewMessageColdStart(ms, d, message) ==
    IF ms[d] = NoCursor THEN FALSE
    ELSE IF message.id > ms[d].id THEN TRUE
    ELSE IF message.id = ms[d].id THEN HashText(message.text) # ms[d].textHash
    ELSE FALSE

\* isNewMessage(dialogId, message) against the map ms.
IsNewMessage(ms, d, message) ==
    IF ms[d] = NoCursor THEN TRUE
    ELSE IF message.id > ms[d].id THEN TRUE
    ELSE IF message.id = ms[d].id THEN HashText(message.text) # ms[d].textHash
    ELSE FALSE

\* markSeen(dialogId, message): the map after this.state.set(...).
MarkSeen(ms, d, message) ==
    [ms EXCEPT ![d] = [id |-> message.id, textHash |-> HashText(message.text)]]

\* Insertion of m into a list sorted by id, after the elements that compare
\* equal (Array.prototype.sort is stable).
RECURSIVE InsertById(_, _)
InsertById(sorted, m) ==
    IF sorted = <<>> THEN <<m>>
    ELSE IF m.id - sorted[1].id < 0 THEN <<m>> \o sorted
    ELSE <<sorted[1]>> \o InsertById(Tail(sorted), m)

RECURSIVE SortAsc(_, _)
SortAsc(msgs, acc) ==
    IF msgs = <<>> THEN acc ELSE SortAsc(Tail(msgs), InsertById(acc, msgs[1]))

\* Mutant: processDialog walks the messages in the order they were fetched.
SortedMessagesUnsorted(messages) == messages

\* messages.sort((a, b) => a.id - b.id)
SortedMessages(messages) == SortAsc(messages, <<>>)

\* The for loop of processDialog from index `from` on, up to the next await:
\* the index of the first message that is not skipped by the lastSeenId test
\* and that isNewMessage accepts, or 0 when the loop runs to its end.
RECURSIVE NextToForward(_, _, _, _, _)
NextToForward(ms, d, sorted, from, lastSeenId) ==
    IF from > Len(sorted) THEN 0
    ELSE IF lastSeenId # 0 /\ sorted[from].id <= lastSeenId
         THEN NextToForward(ms, d, sorted, from + 1, lastSeenId)
    ELSE IF IsNewMessage(ms, d, sorted[from]) THEN from
    ELSE NextToForward(ms, d, sorted, from + 1, lastSeenId)

\* Mutant: markSeen is called before forwardMessage is awaited, so the
\* cursor moves whether the forward succeeds or not.
StateAfterForwardAlways(d, message, ok) == MarkSeen(messageState, d, message)

\* await this.forwardMessage(...); this.messageState.markSeen(...): the map
\* after the forward settled; a rejection skips markSeen.
StateAfterForward(d, message, ok) ==
    IF ok THEN MarkSeen(messageState, d, message) ELSE messageState

\* processDialog(dialog), from its call to its first forward: lastSeenId is
\* read, messagesList answers with a non-empty list, the list is sorted and
\* the loop runs to the first message to forward.
ProcessDialog(d, messages) ==
    /\ tgInv.pc = "idle"
    /\ LET lastSeenId == GetLastSeenId(d)
           sorted == SortedMessages(messages)
           next == NextToForward(messageState, d, sorted, 1, lastSeenId)
       IN /\ tgInv' = IF next = 0 THEN TgDone
                      ELSE [pc |-> "forwarding", dialog |-> d, sorted |-> sorted,
                            i |-> next, lastSeenId |-> lastSeenId]
          /\ tgLog' = [dialog |-> d, start |-> messageState[d], fetched |-> messages,
                       forwarded |-> <<>>, done |-> (next = 0), failed |-> FALSE]
    /\ UNCHANGED <<messageState, cliVars, subVars, pollVars, sessVars, hostVars>>

\* processDialog(dialog) when messagesList throws (caught and logged) or
\* answers with no message (return).
ProcessDialogNothing(d) ==
    /\ tgInv.pc = "idle"
    /\ tgInv' = TgDone
    /\ tgLog' = [dialog |-> d, start |-> messageState[d], fetched |-> <<>>,
                 forwarded |-> <<>>, done |-> TRUE, failed |-> FALSE]
    /\ UNCHANGED <<messageState, cliVars, subVars, pollVars, sessVars, hostVars>>

\* sendInboundMessage settles.  Fulfilled: markSeen, and the loop goes on to
\* the next message to forward.  Rejected: the catch of processDialog logs
\* the error and the rest of the batch is dropped.
ForwardSettle(ok) ==
    /\ tgInv.pc = "forwarding"
    /\ LET d == tgInv.dialog
           message == tgInv.sorted[tgInv.i]
           ms == StateAfterForward(d, message, ok)
           next == NextToForward(ms, d, tgInv.sorted, tgInv.i + 1, tgInv.lastSeenId)
       IN /\ messageState' = ms
          /\ IF ok
             THEN /\ tgInv' = IF next = 0 THEN TgDone ELSE [tgInv EXCEPT !.i = next]
                  /\ tgLog' = [tgLog EXCEPT !.forwarded = Append(@, message),
                                            !.done = (next = 0)]
             ELSE /\ tgInv' = TgDone
                  /\ tgLog' = [tgLog EXCEPT !.done = TRUE, !.failed = TRUE]
    /\ UNCHANGED <<cliVars, subVars, pollVars, sessVars, hostVars>>

\* The promise of processDialog resolves (it never rejects) and the loop of
\* pollForMessages goes on to the next dialog, or the poll ends.
ProcessDialogReturn ==
    /\ tgInv.pc = "done"
    /\ tgInv' = TgIdle
    /\ tgLog' = NoDialogRun
    /\ UNCHANGED <<messageState, cliVars, subVars, pollVars, sessVars, hostVars>>

ProcessDialogAny == \E d \in Dialogs : \E messages \in Fetches : ProcessDialog(d, messages)

ProcessDialogNothingAny == \E d \in Dialogs : ProcessDialogNothing(d)

ForwardSettleAny == \E ok \in BOOLEAN : ForwardSettle(ok)

InitTg == Init

NextTg ==
    \/ ProcessDialogAny
    \/ ProcessDialogNothingAny
    \/ ForwardSettleAny
    \/ ProcessDialogReturn

\* pollForMessages awaits processDialog for one dialog after the other.
SpecTg == InitTg /\ [][NextTg]_vars

-----------------------------------------------------------------------------
(* Claims about the cursor dedup of Telegram messages *)

\* the ids of a sequence of messages, in order
IdsOf(msgs) == [i \in 1..Len(msgs) |-> msgs[i].id]

\* the last processDialog call ran to the end of its loop without a throw
DialogRunComplete == tgLog.done /\ ~tgLog.failed /\ tgLog.dialog # 0

\* C11: with a stored cursor (last_id, fingerprint), a fetched message is
\* forwarded iff its id > last_id, or its id = last_id and the fingerprint
\* of its text differs from the stored one; ids below last_id never are.
C11_NewItemTest ==
    (DialogRunComplete /\ tgLog.start # NoCursor) =>
        \A k \in 1..Len(tgLog.fetched) :
            LET m == tgLog.fetched[k] IN
            (\E j \in 1..Len(tgLog.forwarded) : tgLog.forwarded[j] = m)
              <=> \/ m.id > tgLog.start.id
                  \/ /\ m.id = tgLog.start.id
                     /\ HashText(m.text) # tgLog.start.textHash

\* The part of C11 that the code keeps: a message with an id below the
\* cursor, or at the cursor with the stored fingerprint, is never forwarded.
OldMessagesIgnored ==
    tgLog.start # NoCursor =>
        \A j \in 1..Len(tgLog.forwarded) :
            LET m == tgLog.forwarded[j] IN
            /\ m.id >= tgLog.start.id
            /\ m.id = tgLog.start.id => HashText(m.text) # tgLog.start.textHash

\* the elements of a set of ids, in increasing order
RECURSIVE Ascending(_)
Ascending(S) ==
    IF S = {} THEN <<>>
    ELSE LET lo == CHOOSE x \in S : \A y \in S : x <= y
         IN <<lo>> \o Ascending(S \ {lo})

\* the fetched ids above the cursor the poll of the dialog started with
\* (all of them when the dialog had no cursor)
IdsAboveCursor ==
    {tgLog.fetched[k].id : k \in {j \in 1..Len(tgLog.fetched) :
                                    tgLog.fetched[j].id > tgLog.start.id}}

\* the example of the specification: cursor at 10 with the text of 10
\* unchanged, and a fetch that returns the ids 9, 11, 12, 10 in that order
FetchExample ==
    /\ tgLog.start = [id |-> 10, textHash |-> HashText(<<97>>)]
    /\ IdsOf(tgLog.fetched) = <<9, 11, 12, 10>>
    /\ tgLog.fetched[4].text = <<97>>
    /\ DialogRunComplete

\* C12: within one poll of a dialog the messages are forwarded in
\* increasing id order whatever the fetch order: the forwards of a poll
\* whose forwards all succeed are the fetched ids above the cursor, in
\* increasing order; a fetch of [9,11,12,10] at cursor 10 forwards 11, 12.
C12_AscendingOrder ==
    /\ \A j \in 1..(Len(tgLog.forwarded) - 1) :
            tgLog.forwarded[j].id < tgLog.forwarded[j + 1].id
    /\ DialogRunComplete => IdsOf(tgLog.forwarded) = Ascending(IdsAboveCursor)
    /\ FetchExample => IdsOf(tgLog.forwarded) = <<11, 12>>

\* C12 witness: the example ran to its end and 11 then 12 were forwarded.
C12_Witness == FetchExample /\ IdsOf(tgLog.forwarded) = <<11, 12>>

\* C13: the cursor of a dialog changes only in the step in which a forward
\* of a message of that dialog succeeded, and becomes that message's id and
\* fingerprint; a failed forward leaves every cursor as it was.
C13_CursorCommit ==
    [][/\ \A d \in Dialogs :
            messageState'[d] # messageState[d] =>
                /\ tgInv.pc = "forwarding"
                /\ tgInv.dialog = d
                /\ tgLog'.forwarded = Append(tgLog.forwarded, tgInv.sorted[tgInv.i])
                /\ messageState'[d] =
                       [id |-> tgInv.sorted[tgInv.i].id,
                        textHash |-> HashText(tgInv.sorted[tgInv.i].text)]
       /\ (tgInv.pc = "forwarding" /\ tgLog'.failed) => messageState' = messageState
      ]_vars

\* C13 witness: in a poll of dialog 1 a forward succeeded and moved the
\* cursor of dialog 1 to that message, the next forward failed, and the
\* cursor of dialog 2, set by an earlier poll, is still in place.
C13_Witness ==
    /\ tgLog.dialog = 1
    /\ tgLog.failed
    /\ Len(tgLog.forwarded) = 1
    /\ messageState[1] = [id |-> tgLog.forwarded[1].id,
                          textHash |-> HashText(tgLog.forwarded[1].text)]
    /\ messageState[2] # NoCursor
    /\ Len(tgLog.fetched) >= 2

\* C40: a processDialog call on a dialog that has no stored cursor forwards
\* the fetched messages in ascending order of id, skipping none: what it has
\* forwarded so far is the head of the sorted fetch, all of it once the loop
\* ran to its end without a throw; and the cursor of the dialog is at the
\* message forwarded last, the one with the largest id forwarded.
C40_NoColdStartSuppression ==
    (tgLog.dialog # 0 /\ tgLog.start = NoCursor) =>
        LET sorted == SortedMessages(tgLog.fetched)
            n == Len(tgLog.forwarded)
        IN /\ n <= Len(sorted)
           /\ tgLog.forwarded = SubSeq(sorted, 1, n)
           /\ IdsOf(sorted) = Ascending({tgLog.fetched[k].id : k \in 1..Len(tgLog.fetched)})
           /\ DialogRunComplete => tgLog.forwarded = sorted
           /\ n > 0 =>
                /\ messageState[tgLog.dialog] =
                      [id |-> tgLog.forwarded[n].id,
                       textHash |-> HashText(tgLog.forwarded[n].text)]
                /\ \A j \in 1..n : tgLog.forwarded[j].id <= messageState[tgLog.dialog].id

\* the first poll of dialog 2 fetched 12, 9, 11 in that order and forwarded
\* 9, 11, 12; the cursor of the dialog is at 12
C40_Witness ==
    /\ tgLog.dialog = 2
    /\ tgLog.start = NoCursor
    /\ DialogRunComplete
    /\ IdsOf(tgLog.fetched) = <<12, 9, 11>>
    /\ IdsOf(tgLog.forwarded) = <<9, 11, 12>>
    /\ messageState[2].id = 12

-----------------------------------------------------------------------------
(***************************************************************************)
(* BitwardenSessionManager on the serialized CLI queue                     *)
(***************************************************************************)

\* number of initialize() calls made on the session manager (the module's
\* start() makes one)
MaxInits == 1

\* number of shutdown() calls made on the session manager (the module's
\* stop() makes one each time it is called)
MaxShutdowns == 2

\* number of tool calls (getSession() followed by a CLI call) received
MaxTools == 1

\* number of times a setInterval callback fires
MaxTicks == 1

\* What the session manager sees of a CLI call: the promise of exec is
\* fulfilled (exit code 0) or rejected with a BitwardenCliError.
SessOutcomes == {"exit0", "nonzero"}

\* The commands that carry BW_SESSION and read the vault: cli.sync and the
\* commands of the tool handlers (listFolders, getFolder, generate, ...).
VaultCmds == {"sync", "tool"}

\* this.cli.<cmd>(...) -> exec -> serialize: the call is appended to the
\* chain.  `token` is the session passed as BW_SESSION (0 = none), `by` the
\* caller, `held` the value of this.session when the call was made.
Submit(cmd, token, by) ==
    LET k == Len(calls) + 1 IN
    /\ calls' = Append(calls, [pred |-> queue, st |-> "queued", outcome |-> "none",
                               cmd |-> cmd, session |-> token, by |-> by,
                               held |-> session])
    /\ queue' = NewQueue(k)
    /\ UNCHANGED started

\* getSession() returns the token (TRUE) or throws (FALSE).
GetSessionOk == ~(session = 0 \/ sessionState # "unlocked")

\* A promise reaction is due: the fn of a serialized call whose predecessor
\* settled, or the continuation of an await in initialize() or shutdown()
\* whose CLI call settled.  Node runs these (microtasks) before it handles
\* the next event: a timer, a request, the exit of a CLI process, or the
\* event that makes the owner call initialize() or shutdown().
ReactionDue ==
    \/ \E k \in 1..Len(calls) : calls[k].st = "queued" /\ FnMayRun(k)
    \/ \E i \in 1..Len(inits) :
          inits[i].pc \in {"login", "unlock", "sync"}
            /\ ResultState(inits[i].call) # "pending"
    \/ \E j \in 1..Len(shuts) :
          shuts[j].pc \in {"lock", "logout"} /\ ResultState(shuts[j].call) # "pending"

\* an initialize() call is between its first await and its return or throw
InitInFlight == \E i \in 1..Len(inits) : inits[i].pc \in {"login", "unlock", "sync"}

\* a shutdown() call is between its first await and its return
ShutdownInFlight == \E j \in 1..Len(shuts) : shuts[j].pc \in {"lock", "logout"}

\* initialize(), up to its first await: login is submitted.
Initialize ==
    /\ ~ReactionDue
    /\ Len(inits) < MaxInits
    /\ Submit("login", 0, "init")
    /\ inits' = Append(inits, [pc |-> "login", call |-> Len(calls) + 1])
    /\ sessLog' = [sessLog EXCEPT !.shutdownDone = FALSE,
                                  !.overlap = @ \/ ShutdownInFlight]
    /\ UNCHANGED <<sessionState, session, syncTimer, intervals, shuts,
                   subVars, pollVars, tgVars, hostVars>>

\* Mutant: the state is set to 'locked' before the login is awaited.
StateAfterLoginEager(ok) == "locked"

\* await this.cli.login(...); this.sessionState = 'locked' -- the assignment
\* is not reached when the await throws
StateAfterLogin(ok) == IF ok THEN "locked" ELSE sessionState

\* initialize() after `await this.cli.login(...)`: a rejection is thrown to
\* the caller; otherwise sessionState = 'locked' and unlock is submitted.
InitAfterLogin(i) ==
    /\ i \in 1..Len(inits)
    /\ inits[i].pc = "login"
    /\ ResultState(inits[i].call) # "pending"
    /\ sessionState' = StateAfterLogin(ResultState(inits[i].call) = "fulfilled")
    /\ IF ResultState(inits[i].call) = "fulfilled"
       THEN /\ Submit("unlock", 0, "init")
            /\ inits' = [inits EXCEPT ![i] = [pc |-> "unlock", call |-> Len(calls) + 1]]
       ELSE /\ inits' = [inits EXCEPT ![i].pc = "failed"]
            /\ UNCHANGED cliVars
    /\ UNCHANGED <<session, syncTimer, intervals, shuts, sessLog,
                   subVars, pollVars, tgVars, hostVars>>

\* initialize() after `await this.cli.unlock(...)`: unlock rejects when the
\* command fails or when its output holds no BW_SESSION (parsed = FALSE);
\* otherwise the token is stored, sessionState = 'unlocked' and the initial
\* sync is submitted with the token.
InitAfterUnlock(i, parsed) ==
    /\ i \in 1..Len(inits)
    /\ inits[i].pc = "unlock"
    /\ ResultState(inits[i].call) # "pending"
    /\ IF ResultState(inits[i].call) = "fulfilled" /\ parsed
       THEN /\ session' = inits[i].call
            /\ sessionState' = "unlocked"
            /\ LET k == Len(calls) + 1 IN
                /\ calls' = Append(calls, [pred |-> queue, st |-> "queued",
                                outcome |-> "none", cmd |-> "sync",
                                session |-> session', by |-> "init", held |-> session'])
                /\ queue' = NewQueue(k)
                /\ UNCHANGED started
            /\ inits' = [inits EXCEPT ![i] = [pc |-> "sync", call |-> Len(calls) + 1]]
       ELSE /\ inits' = [inits EXCEPT ![i].pc = "failed"]
            /\ UNCHANGED <<sessionState, session, cliVars>>
    /\ UNCHANGED <<syncTimer, intervals, shuts, sessLog,
                   subVars, pollVars, tgVars, hostVars>>

\* initialize() after `await this.cli.sync(this.session)`: a rejection is
\* thrown to the caller; otherwise the interval is created (handle i for
\* the i-th initialize()) and stored in this.syncTimer.
InitAfterSync(i) ==
    /\ i \in 1..Len(inits)
    /\ inits[i].pc = "sync"
    /\ ResultState(inits[i].call) # "pending"
    /\ IF ResultState(inits[i].call) = "fulfilled"
       THEN /\ syncTimer' = i
            /\ intervals' = intervals \cup {i}
            /\ inits' = [inits EXCEPT ![i].pc = "done"]
            /\ sessLog' = [sessLog EXCEPT !.initDone = TRUE]
       ELSE /\ inits' = [inits EXCEPT ![i].pc = "failed"]
            /\ UNCHANGED <<syncTimer, intervals, sessLog>>
    /\ UNCHANGED <<sessionState, session, shuts, cliVars,
                   subVars, pollVars, tgVars, hostVars>>

\* The setInterval callback of handle h: `if (this.session)` a sync with the
\* current token is submitted; its rejection is caught and logged.
Tick(h) ==
    /\ ~ReactionDue
    /\ h \in intervals
    /\ sessLog.ticks < MaxTicks
    /\ IF session # 0
       THEN /\ Submit("sync", session, "timer")
            /\ sessLog' = [sessLog EXCEPT !.ticks = @ + 1, !.timerSyncs = @ + 1]
       ELSE /\ sessLog' = [sessLog EXCEPT !.ticks = @ + 1]
            /\ UNCHANGED cliVars
    /\ UNCHANGED <<sessionState, session, syncTimer, intervals, inits, shuts,
                   subVars, pollVars, tgVars, hostVars>>

\* A tool handler: const session = sessionManager.getSession(); then the
\* CLI call with that session, in the same turn of the event loop.  When
\* getSession() throws nothing is submitted.
ToolCall ==
    /\ ~ReactionDue
    /\ sessLog.tools < MaxTools
    /\ IF GetSessionOk
       THEN Submit("tool", session, "tool")
       ELSE UNCHANGED cliVars
    /\ sessLog' = [sessLog EXCEPT !.tools = @ + 1]
    /\ UNCHANGED <<sessionState, session, syncTimer, intervals, inits, shuts,
                   subVars, pollVars, tgVars, hostVars>>

\* shutdown() ran to `this.session = null` and returned.
ShutdownEnd(timer) ==
    [pc |-> "done", call |-> 0, timerAtEnd |-> timer]

\* shutdown(), up to its first await: the interval in this.syncTimer is
\* cleared; then lock is submitted if a token is held and the state is
\* unlocked, else logout if the state is not logged_out, else it returns.
Shutdown ==
    /\ ~ReactionDue
    /\ Len(shuts) < MaxShutdowns
    /\ syncTimer' = 0
    /\ intervals' = intervals \ {syncTimer}
    /\ IF session # 0 /\ sessionState = "unlocked"
       THEN /\ Submit("lock", session, "shutdown")
            /\ shuts' = Append(shuts, [pc |-> "lock", call |-> Len(calls) + 1,
                                       timerAtEnd |-> 0])
            /\ sessLog' = [sessLog EXCEPT !.overlap = @ \/ InitInFlight]
            /\ UNCHANGED session
       ELSE IF sessionState # "logged_out"
       THEN /\ Submit("logout", 0, "shutdown")
            /\ shuts' = Append(shuts, [pc |-> "logout", call |-> Len(calls) + 1,
                                       timerAtEnd |-> 0])
            /\ sessLog' = [sessLog EXCEPT !.overlap = @ \/ InitInFlight]
            /\ UNCHANGED session
       ELSE /\ session' = 0
            /\ shuts' = Append(shuts, ShutdownEnd(0))
            /\ sessLog' = [sessLog EXCEPT !.shutdownDone = TRUE,
                                          !.overlap = @ \/ InitInFlight]
            /\ UNCHANGED cliVars
    /\ UNCHANGED <<sessionState, inits, subVars, pollVars, tgVars, hostVars>>

\* try { await this.cli.lock(...); this.sessionState = 'locked' } catch {}
StateAfterLock(ok) == IF ok THEN "locked" ELSE sessionState

\* shutdown() after `await this.cli.lock(this.session)`: on success the
\* state is 'locked', a rejection is logged; then logout is submitted
\* unless the state is logged_out.
ShutAfterLock(j) ==
    /\ j \in 1..Len(shuts)
    /\ shuts[j].pc = "lock"
    /\ ResultState(shuts[j].call) # "pending"
    /\ sessionState' = StateAfterLock(ResultState(shuts[j].call) = "fulfilled")
    /\ IF sessionState' # "logged_out"
       THEN /\ Submit("logout", 0, "shutdown")
            /\ shuts' = [shuts EXCEPT ![j] = [pc |-> "logout", call |-> Len(calls) + 1,
                                              timerAtEnd |-> 0]]
            /\ UNCHANGED <<session, sessLog>>
       ELSE /\ session' = 0
            /\ shuts' = [shuts EXCEPT ![j] = ShutdownEnd(syncTimer)]
            /\ sessLog' = [sessLog EXCEPT !.shutdownDone = TRUE]
            /\ UNCHANGED cliVars
    /\ UNCHANGED <<syncTimer, intervals, inits, subVars, pollVars, tgVars, hostVars>>

\* shutdown() after `await this.cli.logout()`: on success the state is
\* 'logged_out', a rejection is logged; then this.session = null.
ShutAfterLogout(j) ==
    /\ j \in 1..Len(shuts)
    /\ shuts[j].pc = "logout"
    /\ ResultState(shuts[j].call) # "pending"
    /\ sessionState' = IF ResultState(shuts[j].call) = "fulfilled"
                       THEN "logged_out" ELSE sessionState
    /\ session' = 0
    /\ shuts' = [shuts EXCEPT ![j] = ShutdownEnd(syncTimer)]
    /\ sessLog' = [sessLog EXCEPT !.shutdownDone = TRUE]
    /\ UNCHANGED <<syncTimer, intervals, inits, cliVars,
                   subVars, pollVars, tgVars, hostVars>>

CliFnStart == \E k \in 1..Len(calls) : FnStart(k)

\* the exit of the running CLI process is an event like the others
CliSettle ==
    /\ ~ReactionDue
    /\ \E k \in 1..Len(calls) : \E o \in SessOutcomes : ExecFileSettle(k, o)

InitAfterLoginAny == \E i \in 1..MaxInits : InitAfterLogin(i)

InitAfterUnlockAny ==
    \E i \in 1..MaxInits : \E parsed \in BOOLEAN : InitAfterUnlock(i, parsed)

InitAfterSyncAny == \E i \in 1..MaxInits : InitAfterSync(i)

TickAny == \E h \in 1..MaxInits : Tick(h)

ShutAfterLockAny == \E j \in 1..MaxShutdowns : ShutAfterLock(j)

ShutAfterLogoutAny == \E j \in 1..MaxShutdowns : ShutAfterLogout(j)

InitSess == Init

NextSess ==
    \/ Initialize
    \/ InitAfterLoginAny
    \/ InitAfterUnlockAny
    \/ InitAfterSyncAny
    \/ TickAny
    \/ ToolCall
    \/ Shutdown
    \/ ShutAfterLockAny
    \/ ShutAfterLogoutAny
    \/ CliFnStart
    \/ CliSettle

SpecSess == InitSess /\ [][NextSess]_vars

-----------------------------------------------------------------------------
(* Claims about the session manager *)

\* C14: in every reachable state, the intermediate states of initialize()
\* and shutdown() included, the token is non-null iff the state is unlocked.
C14_TokenIffUnlocked == (session # 0) <=> (sessionState = "unlocked")

\* C15: getSession() fails at every point before an initialize() call has
\* completed, also after unlock while the initial sync is running.
C15_GuardBeforeInit == ~sessLog.initDone => ~GetSessionOk

\* C16: once a shutdown() call has completed (and initialize() was not
\* called again since), getSession() fails; and getSession() returns a
\* token only while the state is unlocked.
C16_GuardAfterShutdown ==
    /\ sessLog.shutdownDone => ~GetSessionOk
    /\ GetSessionOk => sessionState = "unlocked"

\* the lock (with the token) or the logout (while the token was held) that
\* call j is has executed successfully
EndsToken(j, token) ==
    /\ calls[j].st = "settled"
    /\ calls[j].outcome = "exit0"
    /\ \/ calls[j].cmd = "lock" /\ calls[j].session = token
       \/ calls[j].cmd = "logout" /\ calls[j].held = token

\* C17: no vault command carrying a token starts executing on the CLI after
\* the lock or logout command for that token has executed.
C17_NoStaleToken ==
    \A k \in 1..Len(calls) :
        (calls[k].cmd \in VaultCmds /\ calls[k].st # "queued") =>
            ~\E j \in 1..(k - 1) : EndsToken(j, calls[k].session)

\* this step is the continuation of an await on a successful `cmd` call
FollowsSuccess(cmd) ==
    \/ \E i \in 1..Len(inits) :
          /\ inits'[i] # inits[i]
          /\ inits[i].call # 0
          /\ calls[inits[i].call].cmd = cmd
          /\ ResultState(inits[i].call) = "fulfilled"
    \/ \E j \in 1..Len(shuts) :
          /\ shuts'[j] # shuts[j]
          /\ shuts[j].call # 0
          /\ calls[shuts[j].call].cmd = cmd
          /\ ResultState(shuts[j].call) = "fulfilled"

\* C18: the session state changes only logged_out -> locked after a
\* successful login, locked -> unlocked after a successful unlock,
\* unlocked -> locked after a successful lock, and locked or unlocked ->
\* logged_out after a successful logout.
C18_Transitions ==
    [][sessionState' # sessionState =>
        \/ /\ sessionState = "logged_out" /\ sessionState' = "locked"
           /\ FollowsSuccess("login")
        \/ /\ sessionState = "locked" /\ sessionState' = "unlocked"
           /\ FollowsSuccess("unlock")
        \/ /\ sessionState = "unlocked" /\ sessionState' = "locked"
           /\ FollowsSuccess("lock")
        \/ /\ sessionState \in {"locked", "unlocked"} /\ sessionState' = "logged_out"
           /\ FollowsSuccess("logout")
      ]_vars

\* C19: when a shutdown() call has completed the token is null and the
\* sync timer handle is cleared.
C19_ShutdownEndsClean ==
    [][\A j \in 1..Len(shuts') :
          (shuts'[j].pc = "done" /\ (j > Len(shuts) \/ shuts[j].pc # "done")) =>
              /\ session' = 0
              /\ syncTimer' = 0
              /\ shuts'[j].timerAtEnd \notin intervals'
      ]_vars

\* C20: after a shutdown() call has completed (and initialize() was not
\* called again since) no periodic sync is issued to the CLI.
C20_NoSyncAfterShutdown ==
    [][sessLog.shutdownDone => sessLog'.timerSyncs = sessLog.timerSyncs]_vars

\* What C16, C19 and C20 say of a completed shutdown() holds when no
\* shutdown() call overlapped the initialize() call: getSession() fails, the
\* timer handle is cleared and no interval is left to fire.
AfterShutdownAlone ==
    (sessLog.shutdownDone /\ ~sessLog.overlap) =>
        /\ ~GetSessionOk
        /\ syncTimer = 0
        /\ intervals = {}

\* the call that initialize() i is awaiting was fulfilled and was `cmd`
InitAwaited(i, cmd) ==
    /\ inits[i].pc = cmd
    /\ calls[inits[i].call].cmd = cmd
    /\ calls[inits[i].call].by = "init"
    /\ ResultState(inits[i].call) = "fulfilled"

\* this step submits the CLI call `cmd` on behalf of initialize()
InitSubmits(cmd) ==
    /\ Len(calls') = Len(calls) + 1
    /\ calls'[Len(calls')].by = "init"
    /\ calls'[Len(calls')].cmd = cmd

\* C33: initialize() submits login first; unlock only in the step that sees
\* the login fulfilled and sync only in the step that sees the unlock
\* fulfilled; the interval is created only in the step that sees the initial
\* sync fulfilled.  The step in which initialize() rejects submits nothing,
\* creates no interval and leaves state and token as they are: for the first
\* initialize() of a manager that is logged_out after a failed login, and
\* locked with no token after a failed unlock.
C33_InitializeOrder ==
    [][/\ \A i \in 1..Len(inits') :
            (i > Len(inits)) => inits'[i].pc = "login" /\ InitSubmits("login")
       /\ InitSubmits("unlock") =>
            \E i \in 1..Len(inits) : InitAwaited(i, "login") /\ inits'[i].pc = "unlock"
       /\ InitSubmits("sync") =>
            \E i \in 1..Len(inits) : InitAwaited(i, "unlock") /\ inits'[i].pc = "sync"
       /\ (\E h \in intervals' : h \notin intervals) =>
            \E i \in 1..Len(inits) : InitAwaited(i, "sync") /\ inits'[i].pc = "done"
       /\ \A i \in 1..Len(inits) :
            (inits[i].pc # "failed" /\ inits'[i].pc = "failed") =>
                /\ ResultState(inits[i].call) = "rejected" \/ inits[i].pc = "unlock"
                /\ calls' = calls
                /\ intervals' = intervals /\ syncTimer' = syncTimer
                /\ sessionState' = sessionState /\ session' = session
                /\ (i = 1 /\ Len(inits) = 1 /\ inits[i].pc = "login") =>
                        sessionState' = "logged_out" /\ session' = 0
                /\ (i = 1 /\ Len(inits) = 1 /\ inits[i].pc = "unlock") =>
                        sessionState' = "locked" /\ session' = 0
                /\ (i = 1 /\ Len(inits) = 1) => intervals' = {}
      ]_vars

\* C33 witness: the login succeeded, the unlock failed: initialize() has
\* rejected, the state is locked, no token, no timer, no sync submitted.
C33_Witness ==
    /\ Len(inits) = 1 /\ inits[1].pc = "failed"
    /\ Len(calls) = 2
    /\ calls[1].cmd = "login" /\ ResultState(1) = "fulfilled"
    /\ calls[2].cmd = "unlock" /\ ResultState(2) = "rejected"
    /\ sessionState = "locked"
    /\ session = 0
    /\ syncTimer = 0 /\ intervals = {}

(***************************************************************************)
(* PollingManager: register / start / stop / trigger of named pollers.     *)
(* A poller's handler is called by runPoller and settles in a later step;  *)
(* the timer of setInterval fires while it is live, whether or not an      *)
(* earlier invocation is still in flight.  SpecMgr runs two pollers.       *)
(***************************************************************************)

\* bound: successful and in-flight invocations a poller may add up to
MaxRuns == 2

\* bound: the clock values; each timer tick advances the clock by one
MaxClock == 3

\* the PollerConfig values registered: immediate, and whether onError is given
Configs == [immediate : BOOLEAN, onError : BOOLEAN]

\* getPollerConfig() of the Telegram module: immediate: false, onError given
TelegramConfig == [immediate |-> FALSE, onError |-> TRUE]

\* the configs a name is registered with: "a" with any, "b" with Telegram's
ConfigsOf(n) == IF n = "a" THEN Configs ELSE {TelegramConfig}

\* how a handler invocation ends: its promise resolves, or it throws an Error,
\* or it throws a value that is not an Error
HandlerOutcomes == {"resolves", "throwsError", "throwsOther"}

\* how the handler of a name may end: that of "a" in any way, also by
\* throwing every time; that of "b" never throws
OutcomesOf(n) == IF n = "a" THEN HandlerOutcomes ELSE {"resolves"}

\* register(), the initial PollerState
NewPollerState(config) ==
    [config |-> config, timer |-> FALSE, running |-> FALSE,
     lastRun |-> NoDate, lastError |-> NoError, runCount |-> 0]

\* Map.set
MapSet(ps, n, state) ==
    [m \in (DOMAIN ps) \cup {n} |-> IF m = n THEN state ELSE ps[m]]

RegisterOverwrites(ps, n, config) ==
    MapSet(ps, n, NewPollerState(config))

\* register(): the map after the call; a name already there throws first
Registered(ps, n, config) ==
    IF n \in DOMAIN ps THEN ps ELSE MapSet(ps, n, NewPollerState(config))

\* the bound on invocations
CanRun(n) == pollers[n].runCount + handlerCalls[n] < MaxRuns

CallsAfterStartNever(hc, state, n) ==
    hc

\* startPoller(): runPoller is called once, at once, if config.immediate
CallsAfterStart(hc, state, n) ==
    IF state.config.immediate THEN [hc EXCEPT ![n] = @ + 1] ELSE hc

TimersAfterStopKept(tm, state, n) ==
    tm

\* stopPoller(): clearInterval(state.timer) if there is a timer
TimersAfterStop(tm, state, n) ==
    IF state.timer THEN [tm EXCEPT ![n] = @ - 1] ELSE tm

\* runPoller(): the message recorded for what the handler threw
ErrorMessage(outcome) ==
    IF outcome = "throwsError" THEN "handler failed" ELSE "Unknown error"

AfterHandlerCountsFailures(state, outcome, now) ==
    [state EXCEPT !.lastRun = now, !.runCount = @ + 1,
                  !.lastError = IF outcome = "resolves" THEN NoError
                                ELSE ErrorMessage(outcome)]

\* runPoller(): the PollerState once the awaited handler settled
AfterHandler(state, outcome, now) ==
    IF outcome = "resolves"
    THEN [state EXCEPT !.lastRun = now, !.runCount = @ + 1, !.lastError = NoError]
    ELSE [state EXCEPT !.lastError = ErrorMessage(outcome)]

PollersAfterHandlerShared(ps, n, outcome, now) ==
    [m \in DOMAIN ps |-> AfterHandler(ps[m], outcome, now)]

\* runPoller(): `state` is the entry of the poller's own name
PollersAfterHandler(ps, n, outcome, now) ==
    [ps EXCEPT ![n] = AfterHandler(ps[n], outcome, now)]

\* register(config)
Register(n, config) ==
    /\ pollers' = Registered(pollers, n, config)
    /\ mgrLog' = [threw |-> n \in DOMAIN pollers, onError |-> FALSE]
    /\ UNCHANGED <<timers, handlerCalls, clock>>
    /\ UNCHANGED <<cliVars, subVars, pollVars, tgVars, sessVars, lapVars, cycleVars>>

\* Mutant: startPoller has no guard against a poller that is running.
StartReturnsEarlyNever(state) == FALSE

\* startPoller(): if (state.running) return
StartReturnsEarly(state) == state.running

\* handle.start(): startPoller(name)
StartPoller(n) ==
    /\ n \in DOMAIN pollers
    /\ LET state == pollers[n] IN
       IF StartReturnsEarly(state)
       THEN UNCHANGED <<pollers, timers, handlerCalls>>
       ELSE /\ state.config.immediate => CanRun(n)
            /\ pollers' = [pollers EXCEPT ![n].running = TRUE, ![n].timer = TRUE]
            /\ handlerCalls' = CallsAfterStart(handlerCalls, state, n)
            /\ timers' = [timers EXCEPT ![n] = @ + 1]
    /\ mgrLog' = NoCall
    /\ UNCHANGED clock
    /\ UNCHANGED <<cliVars, subVars, pollVars, tgVars, sessVars, lapVars, cycleVars>>

\* handle.stop(): stopPoller(name)
StopPoller(n) ==
    /\ n \in DOMAIN pollers
    /\ timers' = TimersAfterStop(timers, pollers[n], n)
    /\ pollers' = [pollers EXCEPT ![n].timer = FALSE, ![n].running = FALSE]
    /\ mgrLog' = NoCall
    /\ UNCHANGED <<handlerCalls, clock>>
    /\ UNCHANGED <<cliVars, subVars, pollVars, tgVars, sessVars, lapVars, cycleVars>>

\* handle.trigger(): triggerPoller(name) awaits runPoller(name)
TriggerPoller(n) ==
    /\ n \in DOMAIN pollers
    /\ CanRun(n)
    /\ handlerCalls' = [handlerCalls EXCEPT ![n] = @ + 1]
    /\ mgrLog' = NoCall
    /\ UNCHANGED <<pollers, timers, clock>>
    /\ UNCHANGED <<cliVars, subVars, pollVars, tgVars, sessVars, lapVars, cycleVars>>

\* the setInterval callback of startPoller: an interval elapsed
TimerTick(n) ==
    /\ timers[n] > 0
    /\ clock < MaxClock
    /\ CanRun(n)
    /\ clock' = clock + 1
    /\ handlerCalls' = [handlerCalls EXCEPT ![n] = @ + 1]
    /\ mgrLog' = NoCall
    /\ UNCHANGED <<pollers, timers>>
    /\ UNCHANGED <<cliVars, subVars, pollVars, tgVars, sessVars, lapVars, cycleVars>>

\* runPoller() after `await state.config.handler()`: the try block's rest or
\* the catch block.  The catch takes whatever the handler threw, and the
\* onError callbacks registered in the repository only log, so the promise
\* of runPoller resolves either way.
HandlerSettle(n, outcome) ==
    /\ handlerCalls[n] > 0
    /\ pollers' = PollersAfterHandler(pollers, n, outcome, clock)
    /\ handlerCalls' = [handlerCalls EXCEPT ![n] = @ - 1]
    /\ mgrLog' = [threw |-> FALSE,
                  onError |-> outcome # "resolves" /\ pollers[n].config.onError]
    /\ UNCHANGED <<timers, clock>>
    /\ UNCHANGED <<cliVars, subVars, pollVars, tgVars, sessVars, lapVars, cycleVars>>

\* startAll(): startPoller for every key of the map
StartAll ==
    /\ \A n \in DOMAIN pollers :
          (~StartReturnsEarly(pollers[n]) /\ pollers[n].config.immediate) => CanRun(n)
    /\ pollers' = [n \in DOMAIN pollers |->
                     [pollers[n] EXCEPT !.running = TRUE, !.timer = TRUE]]
    /\ handlerCalls' = [n \in Names |->
                          IF n \in DOMAIN pollers /\ ~StartReturnsEarly(pollers[n])
                          THEN CallsAfterStart(handlerCalls, pollers[n], n)[n]
                          ELSE handlerCalls[n]]
    /\ timers' = [n \in Names |->
                    IF n \in DOMAIN pollers /\ ~StartReturnsEarly(pollers[n])
                    THEN timers[n] + 1 ELSE timers[n]]
    /\ mgrLog' = NoCall
    /\ UNCHANGED clock
    /\ UNCHANGED <<cliVars, subVars, pollVars, tgVars, sessVars, lapVars, cycleVars>>

\* stopAll(): stopPoller for every key of the map
StopAll ==
    /\ timers' = [n \in Names |->
                    IF n \in DOMAIN pollers
                    THEN TimersAfterStop(timers, pollers[n], n)[n]
                    ELSE timers[n]]
    /\ pollers' = [n \in DOMAIN pollers |->
                     [pollers[n] EXCEPT !.timer = FALSE, !.running = FALSE]]
    /\ mgrLog' = NoCall
    /\ UNCHANGED <<handlerCalls, clock>>
    /\ UNCHANGED <<cliVars, subVars, pollVars, tgVars, sessVars, lapVars, cycleVars>>

RegisterAny == \E n \in Names : \E config \in ConfigsOf(n) : Register(n, config)

StartPollerAny == \E n \in Names : StartPoller(n)

StopPollerAny == \E n \in Names : StopPoller(n)

TriggerPollerAny == \E n \in Names : TriggerPoller(n)

TimerTickAny == \E n \in Names : TimerTick(n)

HandlerSettleAny == \E n \in Names : \E o \in OutcomesOf(n) : HandlerSettle(n, o)

InitMgr == Init

NextMgr ==
    \/ RegisterAny
    \/ StartPollerAny
    \/ StopPollerAny
    \/ TriggerPollerAny
    \/ TimerTickAny
    \/ HandlerSettleAny
    \/ StartAll
    \/ StopAll

SpecMgr == InitMgr /\ [][NextMgr]_vars

\* C21: a handler invocation that succeeds sets lastRun, adds one to runCount
\* and clears lastError; one that throws sets lastError, calls onError if the
\* config has one, leaves runCount and lastRun as they were, leaves the timer
\* alone and does not throw to anyone; a tick that follows invokes the
\* handler again.
C21_FailureContainment ==
    [][\A n \in Names :
        /\ \A o \in HandlerOutcomes : HandlerSettle(n, o) =>
             /\ ~mgrLog'.threw
             /\ timers' = timers
             /\ pollers'[n].timer = pollers[n].timer
             /\ pollers'[n].running = pollers[n].running
             /\ IF o = "resolves"
                THEN /\ pollers'[n].lastRun = clock
                     /\ pollers'[n].runCount = pollers[n].runCount + 1
                     /\ pollers'[n].lastError = NoError
                     /\ ~mgrLog'.onError
                ELSE /\ pollers'[n].lastError # NoError
                     /\ mgrLog'.onError = pollers[n].config.onError
                     /\ pollers'[n].runCount = pollers[n].runCount
                     /\ pollers'[n].lastRun = pollers[n].lastRun
        /\ TimerTick(n) => handlerCalls'[n] = handlerCalls[n] + 1
      ]_vars

\* a failing invocation just called onError; the poller ran once before, its
\* timer is live and a later invocation of it is in flight
C21_Witness ==
    \E n \in DOMAIN pollers :
        /\ mgrLog.onError
        /\ pollers[n].config.onError
        /\ pollers[n].lastError # NoError
        /\ pollers[n].runCount = 1 /\ pollers[n].lastRun # NoDate
        /\ pollers[n].timer /\ timers[n] = 1

\* C22: with two pollers registered, a failing invocation of one changes no
\* field of the other, nor its timer, nor its invocations in flight; every
\* tick of the other invokes its handler and every invocation of it that
\* succeeds adds one to its runCount.
C22_SchedulerIsolation ==
    [][\A a \in DOMAIN pollers : \A b \in DOMAIN pollers \ {a} :
        /\ \A o \in HandlerOutcomes \ {"resolves"} : HandlerSettle(a, o) =>
             /\ pollers'[b] = pollers[b]
             /\ timers'[b] = timers[b]
             /\ handlerCalls'[b] = handlerCalls[b]
        /\ TimerTick(b) =>
             /\ handlerCalls'[b] = handlerCalls[b] + 1
             /\ handlerCalls'[a] = handlerCalls[a]
             /\ pollers' = pollers
        /\ HandlerSettle(b, "resolves") =>
             /\ pollers'[b].runCount = pollers[b].runCount + 1
             /\ pollers'[a] = pollers[a]
      ]_vars

\* two started pollers: one failed and never succeeded, the other completed
\* two runs and has no error
C22_Witness ==
    \E a \in DOMAIN pollers : \E b \in DOMAIN pollers \ {a} :
        /\ pollers[a].running /\ pollers[b].running
        /\ pollers[a].lastError # NoError /\ pollers[a].runCount = 0
        /\ ~pollers[b].config.immediate
        /\ pollers[b].runCount = 2 /\ pollers[b].lastError = NoError

\* C23: register() with a name that is in the map throws and leaves the
\* map (config, timer, running flag, counters of the poller), the live
\* timers and the invocations in flight as they were.
C23_DuplicateRegistration ==
    [][\A n \in DOMAIN pollers : \A config \in Configs :
        Register(n, config) =>
            /\ mgrLog'.threw
            /\ pollers' = pollers
            /\ timers' = timers
            /\ handlerCalls' = handlerCalls
      ]_vars

\* a registration just threw; both names are taken by running pollers that ran
C23_Witness ==
    /\ mgrLog.threw
    /\ DOMAIN pollers = Names
    /\ \A n \in Names : pollers[n].running /\ pollers[n].runCount > 0

\* C24: stop() leaves the poller not running with no live timer, so that no
\* tick fires for it until it is started again; it does not throw, leaves
\* the counters as they were, and on a poller that is not running (stopped
\* before, or never started) it changes nothing.
C24_StopIdempotent ==
    [][\A n \in DOMAIN pollers :
        /\ (StopPoller(n) \/ StopAll) =>
             /\ ~mgrLog'.threw
             /\ ~pollers'[n].running /\ ~pollers'[n].timer
             /\ timers'[n] = 0
             /\ pollers'[n].runCount = pollers[n].runCount
             /\ pollers'[n].lastRun = pollers[n].lastRun
             /\ pollers'[n].lastError = pollers[n].lastError
             /\ pollers'[n].config = pollers[n].config
             /\ handlerCalls' = handlerCalls
             /\ ~pollers[n].running => pollers'[n] = pollers[n]
        /\ TimerTick(n) => pollers[n].running
        /\ ~pollers'[n].running => timers'[n] = 0
      ]_vars

\* a poller that ran is stopped, with an invocation still in flight
C24_Witness ==
    \E n \in DOMAIN pollers :
        /\ ~pollers[n].running /\ ~pollers[n].timer
        /\ pollers[n].runCount = 1
        /\ handlerCalls[n] = 1

\* C25: start() on a poller that is not running invokes the handler once in
\* the same step, before any tick, if config.immediate, and not at all
\* otherwise; it leaves one live timer, every tick of which invokes the
\* handler once; start() on a running poller changes nothing.  Nothing but
\* an immediate start, a tick or trigger() invokes the handler.
C25_StartSchedule ==
    [][\A n \in DOMAIN pollers :
        /\ (~pollers[n].running /\ pollers'[n].running) =>
             /\ StartPoller(n) \/ StartAll
             /\ handlerCalls'[n] = handlerCalls[n]
                                     + (IF pollers[n].config.immediate THEN 1 ELSE 0)
             /\ timers'[n] = 1
             /\ clock' = clock
        /\ ((StartPoller(n) \/ StartAll) /\ pollers[n].running) =>
             /\ pollers'[n] = pollers[n]
             /\ timers'[n] = timers[n]
             /\ handlerCalls'[n] = handlerCalls[n]
        /\ TimerTick(n) =>
             /\ handlerCalls'[n] = handlerCalls[n] + 1
             /\ clock' = clock + 1
        /\ handlerCalls'[n] > handlerCalls[n] =>
             \/ TimerTick(n)
             \/ TriggerPoller(n)
             \/ /\ StartPoller(n) \/ StartAll
                /\ ~pollers[n].running
                /\ pollers[n].config.immediate
      ]_vars

\* a poller started with immediate has two invocations in flight after the
\* first tick: the one start() made and the one of the tick
C25_Witness ==
    \E n \in DOMAIN pollers :
        /\ pollers[n].config.immediate
        /\ pollers[n].running
        /\ pollers[n].runCount = 0 /\ pollers[n].lastError = NoError
        /\ handlerCalls[n] = 2
        /\ clock = 2

\* C39: a registered poller is running iff it holds a timer, the timer it
\* holds is the only live interval timer of its name and a poller that holds
\* none has none; start() on a running poller creates no timer and invokes
\* nothing.
C39_TimerInvariant ==
    /\ [](\A n \in Names :
            IF n \in DOMAIN pollers
            THEN /\ pollers[n].running <=> pollers[n].timer
                 /\ timers[n] = IF pollers[n].timer THEN 1 ELSE 0
            ELSE timers[n] = 0)
    /\ [][\A n \in DOMAIN pollers :
            ((StartPoller(n) \/ StartAll) /\ pollers[n].running) =>
                /\ timers'[n] = 1
                /\ handlerCalls'[n] = handlerCalls[n]
                /\ pollers'[n].running /\ pollers'[n].timer
         ]_vars

\* every name is registered and running with its one timer; the poller with
\* immediate set has the one invocation of its start in flight and the other
\* has none: the state a start() or startAll() on them leaves as it is
C39_Witness ==
    /\ DOMAIN pollers = Names
    /\ \A n \in Names :
          /\ pollers[n].running /\ pollers[n].timer /\ timers[n] = 1
          /\ pollers[n].runCount = 0 /\ pollers[n].lastError = NoError
          /\ handlerCalls[n] = IF pollers[n].config.immediate THEN 1 ELSE 0
    /\ \E n \in Names : pollers[n].config.immediate
    /\ \E n \in Names : ~pollers[n].config.immediate

(***************************************************************************)
(* MoltbookPollingHandler.poll with overlapping invocations.  The timer of *)
(* the PollingManager calls the handler at every interval and does not     *)
(* wait for the invocation before, so a second poll() can begin while the  *)
(* first awaits getFeed or sendInboundMessage.  SpecLap runs up to two     *)
(* invocations at a time on the same seen set.                             *)
(***************************************************************************)

\* bound: the post ids the feeds of SpecLap are made of
NumLapIds == 2

\* bound: the number of posts of a feed in SpecLap
MaxLapBatch == 2

\* the invocations that can be in flight together
Slots == {1, 2}

LapBatches ==
    {b \in UNION {[1..n -> 1..NumLapIds] : n \in 0..MaxLapBatch} :
        \A x, y \in DOMAIN b : x # y => b[x] # b[y]}

\* poll() is called while the invocation of the other slot may be in flight
LapPollCall(k) ==
    /\ lapInv[k].pc = "idle"
    /\ lapInv' = [lapInv EXCEPT ![k].pc = "fetching"]
    /\ lapLog' = [sent |-> [lapLog.sent EXCEPT ![k] = {}],
                  overlap |-> \E j \in Slots \ {k} : lapInv[j].pc # "idle"]
    /\ UNCHANGED <<tgLap, pollVars, cliVars, subVars, tgVars, sessVars, mgrVars, cycleVars>>

\* getFeed rejects: the outer catch logs and rethrows
LapFetchFail(k) ==
    /\ lapInv[k].pc = "fetching"
    /\ lapInv' = [lapInv EXCEPT ![k] = LapIdle]
    /\ UNCHANGED <<lapLog, tgLap, pollVars, cliVars, subVars, tgVars, sessVars, mgrVars, cycleVars>>

\* getFeed resolves with `posts`: the cold start, or the filter against the
\* seen set as it is now and the first sendInboundMessage call, or (nothing
\* new) the trim and the return
LapFetchOk(k, posts) ==
    /\ lapInv[k].pc = "fetching"
    /\ LET np == NewPosts(posts, seenPostIds) IN
       IF isFirstPoll
       THEN /\ seenPostIds' = ColdStartSeen(seenPostIds, posts)
            /\ isFirstPoll' = FALSE
            /\ lapInv' = [lapInv EXCEPT ![k] = LapIdle]
       ELSE IF np = <<>>
       THEN /\ seenPostIds' = TrimSeenIds(seenPostIds)
            /\ lapInv' = [lapInv EXCEPT ![k] = LapIdle]
            /\ UNCHANGED isFirstPoll
       ELSE /\ lapInv' = [lapInv EXCEPT ![k] = [pc |-> "sending", newPosts |-> np, i |-> 1]]
            /\ UNCHANGED <<seenPostIds, isFirstPoll>>
    /\ UNCHANGED <<lapLog, tgLap, inv, pollLog, cliVars, subVars, tgVars, sessVars, mgrVars, cycleVars>>

\* sendInboundMessage for newPosts[i] of the invocation k settles
LapSendSettle(k, ok) ==
    /\ lapInv[k].pc = "sending"
    /\ LET id == lapInv[k].newPosts[lapInv[k].i]
           seen1 == SeenAfterSend(seenPostIds, id, ok)
       IN
       /\ lapLog' = IF ok THEN [lapLog EXCEPT !.sent[k] = @ \cup {id}] ELSE lapLog
       /\ IF lapInv[k].i < Len(lapInv[k].newPosts)
          THEN /\ seenPostIds' = seen1
               /\ lapInv' = [lapInv EXCEPT ![k].i = @ + 1]
          ELSE /\ seenPostIds' = TrimSeenIds(seen1)
               /\ lapInv' = [lapInv EXCEPT ![k] = LapIdle]
    /\ UNCHANGED <<tgLap, isFirstPoll, inv, pollLog, cliVars, subVars, tgVars, sessVars, mgrVars, cycleVars>>

LapPollCallAny == \E k \in Slots : LapPollCall(k)

LapFetchFailAny == \E k \in Slots : LapFetchFail(k)

LapFetchOkAny == \E k \in Slots : \E posts \in LapBatches : LapFetchOk(k, posts)

LapSendSettleAny == \E k \in Slots : \E ok \in BOOLEAN : LapSendSettle(k, ok)

InitLap == Init

NextLap ==
    \/ LapPollCallAny
    \/ LapFetchFailAny
    \/ LapFetchOkAny
    \/ LapSendSettleAny

SpecLap == InitLap /\ [][NextLap]_vars

\* C27: two invocations of poll() that overlap never both send the same
\* post successfully.
C27_OverlapSafety ==
    lapLog.overlap => lapLog.sent[1] \cap lapLog.sent[2] = {}

\* getPollerConfig() of the Moltbook handler: immediate: true, onError given
MoltbookConfig == [immediate |-> TRUE, onError |-> TRUE]

\* how the handler of the Moltbook poller, poll(), settled for runPoller:
\* the outer catch of poll() rethrows, every other end is a return
PollOutcome(kind) == IF kind = "threw" THEN "throwsError" ELSE "resolves"

\* C37: a failed send does not end the batch: every new post of the batch
\* is attempted, the posts whose send succeeded are in the seen set, and the
\* poll returns; poll() throws only when nothing was attempted (the fetch
\* failed).  runPoller then counts the run and records no lastError.
C37_ForwardFailureIsolated ==
    /\ inv.pc = "sending" => Len(inv.attempts) = inv.i - 1
    /\ pollLog.last.kind = "threw" => pollLog.last.attempts = <<>>
    /\ pollLog.last.kind = "normal" =>
        /\ Len(pollLog.last.attempts) = Cardinality(pollLog.last.newIds)
        /\ Range(AttemptIds(pollLog.last.attempts)) = pollLog.last.newIds
        /\ \A x \in 1..Len(pollLog.last.attempts) :
              pollLog.last.attempts[x].ok =>
                  pollLog.last.attempts[x].id \in Range(seenPostIds)
        /\ LET state == AfterHandler(NewPollerState(MoltbookConfig),
                                     PollOutcome(pollLog.last.kind), 1)
           IN state.runCount = 1 /\ state.lastError = NoError /\ state.lastRun = 1

\* C37 witness: a poll of two new posts returned; the first send failed, the
\* second succeeded and its post is in the seen set, the first is not.
C37_Witness ==
    /\ pollLog.last.kind = "normal"
    /\ Len(pollLog.last.attempts) = 2
    /\ ~pollLog.last.attempts[1].ok
    /\ pollLog.last.attempts[2].ok
    /\ pollLog.last.attempts[2].id \in Range(seenPostIds)
    /\ pollLog.last.attempts[1].id \notin Range(seenPostIds)
    /\ PollOutcome(pollLog.last.kind) = "resolves"

\* C38: when the fetch of a poll fails while the first-poll flag is set,
\* poll() throws to runPoller, the seen set stays empty and the flag stays
\* set; a fetch that succeeds while the flag is set is absorbed: its ids
\* become the seen set and nothing is sent.
C38_ColdStartPending ==
    [][/\ (isFirstPoll /\ FetchFail) =>
            /\ isFirstPoll'
            /\ seenPostIds' = <<>>
            /\ pollLog'.last.kind = "threw"
            /\ PollOutcome(pollLog'.last.kind) = "throwsError"
            /\ inv'.pc = "idle"
       /\ (isFirstPoll /\ pollLog.last.kind = "threw" /\ inv.pc = "fetching"
             /\ pollLog'.last.kind # "threw") =>
            /\ pollLog'.last.kind = "cold"
            /\ ~isFirstPoll'
            /\ seenPostIds' = pollLog'.last.posts
            /\ pollLog'.last.attempts = <<>>
            /\ ~pollLog'.forwarded
            /\ inv'.pc = "idle"
      ]_vars

\* C38 witness: the fetch of the first poll failed and the next poll, still
\* the first for the handler, is awaiting its fetch.
C38_Witness ==
    /\ isFirstPoll
    /\ pollLog.last.kind = "threw"
    /\ seenPostIds = <<>>
    /\ inv.pc = "fetching"

(***************************************************************************)
(* TelegramPollingModule.processDialog called for one dialog by two poll   *)
(* invocations that overlap: the timer of the Telegram poller fires while  *)
(* the poll it started before is still awaiting.  Both work on the one     *)
(* TelegramMessageState.                                                   *)
(***************************************************************************)

\* bound: the number of messages messagesList returns in SpecTgLap
MaxTgLapFetch == 2

\* the dialog both invocations process
LapDialog == 1

\* the messages of that dialog
LapMessages == [id : {9, 10}, text : {<<97>>}]

TgLapFetches ==
    {f \in UNION {[1..n -> LapMessages] : n \in 1..MaxTgLapFetch} :
        \A i, j \in 1..Len(f) : i # j => f[i].id # f[j].id}

\* processDialog(dialog) up to its first await: lastSeenId is read and
\* messagesList is called
TgLapCall(k) ==
    /\ tgLap[k].pc = "idle"
    /\ tgLap' = [tgLap EXCEPT ![k] =
           [pc |-> "listing", dialog |-> LapDialog, sorted |-> <<>>, i |-> 0,
            lastSeenId |-> GetLastSeenId(LapDialog)]]
    /\ UNCHANGED <<tgVars, lapInv, lapLog, cliVars, subVars, pollVars, sessVars,
                   mgrVars, cycleVars>>

\* messagesList throws (caught and logged) or answers with no message
TgLapListNothing(k) ==
    /\ tgLap[k].pc = "listing"
    /\ tgLap' = [tgLap EXCEPT ![k] = TgIdle]
    /\ UNCHANGED <<tgVars, lapInv, lapLog, cliVars, subVars, pollVars, sessVars,
                   mgrVars, cycleVars>>

\* messagesList answers: the list is sorted and the loop runs to the first
\* message to forward, tested against the lastSeenId read at the call and
\* against the map as it is now
TgLapListOk(k, messages) ==
    /\ tgLap[k].pc = "listing"
    /\ LET sorted == SortedMessages(messages)
           next == NextToForward(messageState, LapDialog, sorted, 1, tgLap[k].lastSeenId)
       IN tgLap' = [tgLap EXCEPT ![k] =
              IF next = 0 THEN TgIdle
              ELSE [@ EXCEPT !.pc = "forwarding", !.sorted = sorted, !.i = next]]
    /\ UNCHANGED <<tgVars, lapInv, lapLog, cliVars, subVars, pollVars, sessVars,
                   mgrVars, cycleVars>>

\* sendInboundMessage of invocation k settles.  Fulfilled: markSeen with the
\* message that was forwarded, and the loop goes on.  Rejected: the catch of
\* processDialog ends the invocation.
TgLapForwardSettle(k, ok) ==
    /\ tgLap[k].pc = "forwarding"
    /\ LET message == tgLap[k].sorted[tgLap[k].i]
           ms == StateAfterForward(LapDialog, message, ok)
           next == NextToForward(ms, LapDialog, tgLap[k].sorted, tgLap[k].i + 1,
                                 tgLap[k].lastSeenId)
       IN /\ messageState' = ms
          /\ tgLap' = [tgLap EXCEPT ![k] =
                 IF ok /\ next # 0 THEN [@ EXCEPT !.i = next] ELSE TgIdle]
    /\ UNCHANGED <<tgInv, tgLog, lapInv, lapLog, cliVars, subVars, pollVars,
                   sessVars, mgrVars, cycleVars>>

TgLapCallAny == \E k \in Slots : TgLapCall(k)

TgLapListNothingAny == \E k \in Slots : TgLapListNothing(k)

TgLapListOkAny == \E k \in Slots : \E messages \in TgLapFetches : TgLapListOk(k, messages)

TgLapForwardSettleAny == \E k \in Slots : \E ok \in BOOLEAN : TgLapForwardSettle(k, ok)

InitTgLap == Init

NextTgLap ==
    \/ TgLapCallAny
    \/ TgLapListNothingAny
    \/ TgLapListOkAny
    \/ TgLapForwardSettleAny

SpecTgLap == InitTgLap /\ [][NextTgLap]_vars

\* C35: the stored last id of a dialog never decreases, also when two
\* invocations of the poll handler overlap.
C35_CursorMonotonic ==
    [][\A d \in Dialogs : messageState'[d].id >= messageState[d].id]_vars

(***************************************************************************)
(* TelegramPollingModule.pollForMessages: one poll cycle.  groupsList is   *)
(* awaited, then processDialog is awaited for each allowed dialog in turn. *)
(* SpecCycle runs one cycle at a time.                                     *)
(***************************************************************************)

\* bound: the number of messages messagesList returns in SpecCycle
MaxCycleFetch == 2

\* what groupsList can leave after the filter: the allowed dialogs, each at
\* most once, in any order
DialogLists ==
    {l \in UNION {[1..n -> Dialogs] : n \in 0..Cardinality(Dialogs)} :
        \A x, y \in DOMAIN l : x # y => l[x] # l[y]}

\* what messagesList can return in SpecCycle, the empty list included
CycleFetches ==
    {f \in UNION {[1..n -> Messages] : n \in 0..MaxCycleFetch} :
        \A x, y \in DOMAIN f : x # y => f[x].id # f[y].id}

ProcessDialogSettlesByOutcome(failed) ==
    IF failed THEN "rejected" ELSE "resolved"

\* how the promise of processDialog settles: its try block spans the whole
\* body and its catch only logs, so it resolves whether or not the fetch or
\* a forward failed
ProcessDialogSettles(failed) ==
    "resolved"

\* processDialog(dialog) up to its first await: lastSeenId is read and
\* messagesList is called
DialogCalled(ms, d) ==
    [pc |-> "fetching", dialog |-> d, sorted |-> <<>>, i |-> 0,
     lastSeenId |-> ms[d].id]

\* The invocation of processDialog for dialogs[k] came to its end, `failed`
\* telling whether by its catch block; ms is the cursor map it leaves and
\* log the history so far.  The await of pollForMessages goes on: a
\* rejection is rethrown by the outer catch; otherwise the loop calls
\* processDialog for the next dialog or the poll resolves.
DialogEnded(ms, failed, log) ==
    LET d == tgCycle.dialogs[tgCycle.k]
        l == [log EXCEPT !.failed = IF failed THEN @ \cup {d} ELSE @]
    IN
    IF ProcessDialogSettles(failed) = "rejected"
    THEN /\ tgCycle' = CycleIdle
         /\ tgInv' = TgIdle
         /\ cycleLog' = [l EXCEPT !.result = "rejected"]
    ELSE IF tgCycle.k < Len(tgCycle.dialogs)
    THEN /\ tgCycle' = [tgCycle EXCEPT !.k = @ + 1]
         /\ tgInv' = DialogCalled(ms, tgCycle.dialogs[tgCycle.k + 1])
         /\ cycleLog' = [l EXCEPT !.called = Append(@, tgCycle.dialogs[tgCycle.k + 1])]
    ELSE /\ tgCycle' = CycleIdle
         /\ tgInv' = TgIdle
         /\ cycleLog' = [l EXCEPT !.result = "resolved"]

\* pollForMessages() is called by the poller and awaits groupsList
PollForMessages ==
    /\ tgCycle.pc = "idle"
    /\ tgCycle' = [CycleIdle EXCEPT !.pc = "listing"]
    /\ cycleLog' = NoCycle
    /\ UNCHANGED <<tgVars, cliVars, subVars, pollVars, sessVars, mgrVars, lapVars>>

\* groupsList fails: the outer catch logs and rethrows
GroupsListFail ==
    /\ tgCycle.pc = "listing"
    /\ tgCycle' = CycleIdle
    /\ cycleLog' = [cycleLog EXCEPT !.result = "rejected", !.listFailed = TRUE]
    /\ UNCHANGED <<tgVars, cliVars, subVars, pollVars, sessVars, mgrVars, lapVars>>

\* groupsList answers; after the filter `dialogs` are left and processDialog
\* is called for the first of them, or the poll resolves at once
GroupsListOk(dialogs) ==
    /\ tgCycle.pc = "listing"
    /\ IF dialogs = <<>>
       THEN /\ tgCycle' = CycleIdle
            /\ cycleLog' = [cycleLog EXCEPT !.result = "resolved"]
            /\ UNCHANGED tgInv
       ELSE /\ tgCycle' = [pc |-> "dialogs", dialogs |-> dialogs, k |-> 1]
            /\ cycleLog' = [cycleLog EXCEPT !.dialogs = dialogs, !.called = <<dialogs[1]>>]
            /\ tgInv' = DialogCalled(messageState, dialogs[1])
    /\ UNCHANGED <<messageState, tgLog, cliVars, subVars, pollVars, sessVars, mgrVars, lapVars>>

\* messagesList fails for the dialog in hand: the catch of processDialog
\* logs a warning
MessagesListFail ==
    /\ tgCycle.pc = "dialogs" /\ tgInv.pc = "fetching"
    /\ DialogEnded(messageState, TRUE, cycleLog)
    /\ UNCHANGED <<messageState, tgLog, cliVars, subVars, pollVars, sessVars, mgrVars, lapVars>>

\* messagesList answers for the dialog in hand: return on an empty list,
\* else the sort and the loop up to the first forward
MessagesListOk(messages) ==
    /\ tgCycle.pc = "dialogs" /\ tgInv.pc = "fetching"
    /\ LET d == tgInv.dialog
           sorted == SortedMessages(messages)
           next == NextToForward(messageState, d, sorted, 1, tgInv.lastSeenId)
       IN IF next = 0
          THEN DialogEnded(messageState, FALSE, cycleLog)
          ELSE /\ tgInv' = [tgInv EXCEPT !.pc = "forwarding", !.sorted = sorted,
                                         !.i = next]
               /\ UNCHANGED <<tgCycle, cycleLog>>
    /\ UNCHANGED <<messageState, tgLog, cliVars, subVars, pollVars, sessVars, mgrVars, lapVars>>

\* sendInboundMessage settles for the dialog in hand: markSeen and the loop
\* goes on, or the catch of processDialog logs a warning
CycleForwardSettle(ok) ==
    /\ tgCycle.pc = "dialogs" /\ tgInv.pc = "forwarding"
    /\ LET d == tgInv.dialog
           message == tgInv.sorted[tgInv.i]
           ms == StateAfterForward(d, message, ok)
           next == NextToForward(ms, d, tgInv.sorted, tgInv.i + 1, tgInv.lastSeenId)
           log == IF ok THEN [cycleLog EXCEPT !.forwarded = @ \cup {d}] ELSE cycleLog
       IN /\ messageState' = ms
          /\ IF ok /\ next # 0
             THEN /\ tgInv' = [tgInv EXCEPT !.i = next]
                  /\ cycleLog' = log
                  /\ UNCHANGED tgCycle
             ELSE DialogEnded(ms, ~ok, log)
    /\ UNCHANGED <<tgLog, cliVars, subVars, pollVars, sessVars, mgrVars, lapVars>>

GroupsListOkAny == \E dialogs \in DialogLists : GroupsListOk(dialogs)

MessagesListOkAny == \E messages \in CycleFetches : MessagesListOk(messages)

CycleForwardSettleAny == \E ok \in BOOLEAN : CycleForwardSettle(ok)

InitCycle == Init

NextCycle ==
    \/ PollForMessages
    \/ GroupsListFail
    \/ GroupsListOkAny
    \/ MessagesListFail
    \/ MessagesListOkAny
    \/ CycleForwardSettleAny

SpecCycle == InitCycle /\ [][NextCycle]_vars

\* C28: a poll cycle whose dialog list was fetched calls processDialog for
\* every dialog of the list, in order, whatever failed for the dialogs
\* before, and resolves; the cycle rejects only when groupsList failed.
C28_ChannelIsolation ==
    /\ cycleLog.result = "rejected" <=> cycleLog.listFailed
    /\ cycleLog.result = "resolved" => cycleLog.called = cycleLog.dialogs
    /\ tgCycle.pc = "dialogs" =>
          cycleLog.called = SubSeq(tgCycle.dialogs, 1, tgCycle.k)
    /\ cycleLog.failed \subseteq Range(cycleLog.called)

\* a cycle over two dialogs resolved: the fetch or a forward of the first
\* dialog failed, then a message of the second was forwarded
C28_Witness ==
    /\ cycleLog.result = "resolved"
    /\ Len(cycleLog.dialogs) = 2
    /\ cycleLog.failed = {cycleLog.dialogs[1]}
    /\ cycleLog.forwarded = {cycleLog.dialogs[2]}

\* The poller's timer keeps calling pollForMessages, and the MCP calls and
\* the sends it awaits settle.
SpecCycleFair ==
    /\ SpecCycle
    /\ WF_vars(PollForMessages)
    /\ WF_vars(GroupsListFail \/ GroupsListOkAny)
    /\ WF_vars(MessagesListFail \/ MessagesListOkAny)
    /\ WF_vars(CycleForwardSettleAny)

\* the forward of message id of dialog d is awaited
Forwarding(d, id) ==
    /\ tgCycle.pc = "dialogs"
    /\ tgInv.pc = "forwarding"
    /\ tgInv.dialog = d
    /\ tgInv.sorted[tgInv.i].id = id

\* C36: a message m of a dialog whose forward was attempted is not skipped:
\* whether the forward fails or not, either the cursor of the dialog comes
\* to m (m was forwarded successfully) or it stays below m for ever (no
\* message above m is forwarded successfully), over the polls that follow
\* one another.
C36_OrderAcrossFailures ==
    \A d \in Dialogs : \A id \in MsgIds :
        [](Forwarding(d, id) =>
            (<>(messageState[d].id = id) \/ [](messageState[d].id < id)))

\* The part of C36 about the poll in which the forward fails: the cursor is
\* left as it was, below m, and processDialog ends for that dialog, so that
\* no message above m is forwarded by that call.
FailureEndsDialog ==
    [][\A d \in Dialogs : \A id \in MsgIds :
         (Forwarding(d, id) /\ CycleForwardSettle(FALSE)) =>
            /\ messageState' = messageState
            /\ messageState[d].id < id
            /\ ~(tgInv'.pc = "forwarding" /\ tgInv'.dialog = d /\ tgCycle'.k = tgCycle.k)
      ]_vars

\* The other part of C36 that holds: the ids forwarded successfully for a
\* dialog go up from one success to the next, within a poll and across
\* polls.
ForwardsAscend ==
    [][\A d \in Dialogs :
         messageState'[d] # messageState[d] => messageState'[d].id > messageState[d].id
      ]_vars

=============================================================================
